---- MODULE Spec2Model ----
(***************************************************************************)
(* Configuration-driven pricing rule engine of tellerquoter:               *)
(*   RuleEngine               (app/services/rule_engine.py)                *)
(*   QuoteCalculationService  (app/services/quote_calculation_service.py)  *)
(*   SaaSConfigurationService (app/services/saas_configuration_service.py) *)
(*                                                                         *)
(* JSON values are tagged records; Decimal and float values are exact      *)
(* rationals n/d in lowest terms; a Python call that raises is the record  *)
(* Raise(e), a call that returns v is Ok(v).                               *)
(***************************************************************************)
EXTENDS Integers, Sequences, FiniteSets, TLC

VARIABLES
    call,    \* the last request: its operation and its arguments
    ret,     \* what that request returned, or the exception it raised
    evald,   \* the texts that request handed to the host-language eval
    db,      \* the stored configuration
    svc      \* the service instances that live on between steps, with their caches

vars == <<call, ret, evald, db, svc>>

\* No instance outlives the request: the service is built, called once and dropped
NoServices == <<>>

(***************************************************************************)
(* Outcomes of a Python call.                                              *)
(***************************************************************************)
Ok(v) == [ok |-> TRUE, v |-> v]
Raise(e) == [ok |-> FALSE, exc |-> e]

(***************************************************************************)
(* Exact numbers (Decimal, int, float on the small values used here).      *)
(***************************************************************************)
Abs(x) == IF x < 0 THEN -x ELSE x

RECURSIVE Gcd(_, _)
Gcd(a, b) == IF b = 0 THEN a ELSE Gcd(b, a % b)

Rat(n, d) ==
    LET g == Gcd(Abs(n), Abs(d))
        s == IF d < 0 THEN -1 ELSE 1
    IN  [n |-> (s * n) \div g, d |-> (s * d) \div g]

RInt(i) == [n |-> i, d |-> 1]
RAdd(a, b) == Rat(a.n * b.d + b.n * a.d, a.d * b.d)
RSub(a, b) == Rat(a.n * b.d - b.n * a.d, a.d * b.d)
RMul(a, b) ==
    LET x == Rat(a.n, b.d)
        y == Rat(b.n, a.d)
    IN  [n |-> x.n * y.n, d |-> x.d * y.d]
RDiv(a, b) == RMul(a, Rat(b.d, b.n))
RLe(a, b) == a.n * b.d <= b.n * a.d
RLt(a, b) == a.n * b.d < b.n * a.d
RMax(a, b) == IF RLe(a, b) THEN b ELSE a
RZero == RInt(0)

(***************************************************************************)
(* JSON values as Python sees them.                                        *)
(***************************************************************************)
Null == [k |-> "null"]
Num(r) == [k |-> "num", n |-> r.n, d |-> r.d]
Int_(i) == Num(RInt(i))
Str(s) == [k |-> "str", s |-> s]
Bool(b) == [k |-> "bool", b |-> b]
List(items) == [k |-> "list", items |-> items]
Dict(m) == [k |-> "dict", m |-> m]
EmptyDict == Dict(<<>>)

NumOf(j) == [n |-> j.n, d |-> j.d]

\* dict.get(key, default)
Get(dct, key, default) == IF key \in DOMAIN dct.m THEN dct.m[key] ELSE default

\* Python truthiness: bool(x) / "if x" / "not x"
Truthy(j) ==
    CASE j.k = "null" -> FALSE
      [] j.k = "bool" -> j.b
      [] j.k = "num" -> j.n # 0
      [] j.k = "str" -> j.s # ""
      [] j.k = "list" -> Len(j.items) > 0
      [] j.k = "dict" -> DOMAIN j.m # {}

\* Python ==: a bool is the int 0 or 1; values of other different types differ
AsNumber(j) == IF j.k = "bool" THEN RInt(IF j.b THEN 1 ELSE 0) ELSE NumOf(j)
PyEq(a, b) ==
    IF a.k \in {"num", "bool"} /\ b.k \in {"num", "bool"}
    THEN AsNumber(a) = AsNumber(b)
    ELSE a = b

(***************************************************************************)
(* Strings.  A string is an atom; its characters are Spelled[s] when the   *)
(* characters matter (dots, digits, operators) and the one-element         *)
(* sequence <<s>> otherwise, so an unspelled word behaves as a single      *)
(* letter: no digit, no dot, no operator.                                  *)
(***************************************************************************)
Spelled ==
    ("" :> <<>>) @@
    ("m.q" :> <<"m", ".", "q">>) @@
    ("m.x" :> <<"m", ".", "x">>) @@
    ("q.z" :> <<"q", ".", "z">>) @@
    ("-2" :> <<"-", "2">>) @@
    ("2.5" :> <<"2", ".", "5">>) @@
    ("10" :> <<"1", "0">>) @@
    ("2+3" :> <<"2", "+", "3">>) @@
    ("7%4" :> <<"7", "%", "4">>) @@
    ("1/0" :> <<"1", "/", "0">>) @@
    ("2+" :> <<"2", "+">>) @@
    ("x*2" :> <<"x", "*", "2">>) @@
    ("(x+1)*3" :> <<"(", "x", "+", "1", ")", "*", "3">>) @@
    ("xy" :> <<"x", "y">>) @@
    ("x+xy" :> <<"x", "+", "x", "y">>) @@
    ("{x}*2" :> <<"{", "x", "}", "*", "2">>) @@
    ("{x}%2" :> <<"{", "x", "}", "%", "2">>) @@
    ("{x}" :> <<"{", "x", "}">>) @@
    ("{departments}*2" :> <<"{", "departments", "}", "*", "2">>) @@
    ("{departments}%2" :> <<"{", "departments", "}", "%", "2">>) @@
    ("(1)(2)" :> <<"(", "1", ")", "(", "2", ")">>) @@
    ("6 / 4" :> <<"6", " ", "/", " ", "4">>) @@
    ("scan_volume" :> <<"scan", "_", "volume">>) @@
    ("scan volume" :> <<"scan", " ", "volume">>) @@
    ("modules.check_recognition.scan_volume" :>
        <<"modules", ".", "check_recognition", ".", "scan", "_", "volume">>) @@
    ("modules.check_recognition.is_new" :>
        <<"modules", ".", "check_recognition", ".", "is_new">>)

StrChars(s) == IF s \in DOMAIN Spelled THEN Spelled[s] ELSE <<s>>

CharsStr(cs) ==
    IF Len(cs) = 1 THEN cs[1]
    ELSE IF \E s \in DOMAIN Spelled : Spelled[s] = cs
         THEN CHOOSE s \in DOMAIN Spelled : Spelled[s] = cs
         ELSE "<unspelled>"

Digits == {"0", "1", "2", "3", "4", "5", "6", "7", "8", "9"}
DigitVal(c) ==
    CASE c = "0" -> 0 [] c = "1" -> 1 [] c = "2" -> 2 [] c = "3" -> 3
      [] c = "4" -> 4 [] c = "5" -> 5 [] c = "6" -> 6 [] c = "7" -> 7
      [] c = "8" -> 8 [] c = "9" -> 9
DigitChar(i) ==
    CASE i = 0 -> "0" [] i = 1 -> "1" [] i = 2 -> "2" [] i = 3 -> "3"
      [] i = 4 -> "4" [] i = 5 -> "5" [] i = 6 -> "6" [] i = 7 -> "7"
      [] i = 8 -> "8" [] i = 9 -> "9"

RECURSIVE DigitsVal(_)
DigitsVal(cs) ==
    IF cs = <<>> THEN 0
    ELSE DigitsVal(SubSeq(cs, 1, Len(cs) - 1)) * 10 + DigitVal(cs[Len(cs)])

RECURSIVE NatChars(_)
NatChars(i) ==
    IF i < 10 THEN <<DigitChar(i)>>
    ELSE Append(NatChars(i \div 10), DigitChar(i % 10))

RECURSIVE Pow10(_)
Pow10(e) == IF e = 0 THEN 1 ELSE 10 * Pow10(e - 1)

AllDigits(cs) == \A i \in 1..Len(cs) : cs[i] \in Digits

IndexOf(cs, c) ==
    IF \E i \in 1..Len(cs) : cs[i] = c
    THEN CHOOSE i \in 1..Len(cs) : cs[i] = c /\ \A j \in 1..(i - 1) : cs[j] # c
    ELSE 0

Tail_(cs, p) == SubSeq(cs, p, Len(cs))

\* str.strip() of blanks
RECURSIVE Strip(_)
Strip(cs) ==
    IF cs # <<>> /\ cs[1] = " " THEN Strip(Tail(cs))
    ELSE IF cs # <<>> /\ cs[Len(cs)] = " " THEN Strip(SubSeq(cs, 1, Len(cs) - 1))
    ELSE cs

\* The numeral syntax float() and Decimal() accept, restricted to
\* [sign] digits [. digits]; anything else is not a number.
ParseDigits(sign, ip, fp) ==
    IF AllDigits(ip) /\ AllDigits(fp) /\ Len(ip) + Len(fp) > 0
    THEN Ok(Rat(sign * (DigitsVal(ip) * Pow10(Len(fp)) + DigitsVal(fp)), Pow10(Len(fp))))
    ELSE Raise("ValueError")

ParseUnsigned(sign, body, dot) ==
    ParseDigits(sign,
                IF dot = 0 THEN body ELSE SubSeq(body, 1, dot - 1),
                IF dot = 0 THEN <<>> ELSE Tail_(body, dot + 1))

ParseSigned(sign, body) == ParseUnsigned(sign, body, IndexOf(body, "."))

ParseStripped(cs) ==
    ParseSigned(IF cs # <<>> /\ cs[1] = "-" THEN -1 ELSE 1,
                IF cs # <<>> /\ cs[1] \in {"-", "+"} THEN Tail(cs) ELSE cs)

ParseNumber(raw) == ParseStripped(Strip(raw))

\* float(x)
ToFloat(j) ==
    CASE j.k = "num" -> Ok(NumOf(j))
      [] j.k = "bool" -> Ok(AsNumber(j))
      [] j.k = "str" -> ParseNumber(StrChars(j.s))
      [] OTHER -> Raise("TypeError")

\* int(x): truncation toward zero; a string must be an integer numeral
Trunc(r) == IF r.n >= 0 THEN r.n \div r.d ELSE -((-r.n) \div r.d)
Numerator(r) == IF r.ok THEN Ok(r.v.n) ELSE r
ToInt(j) ==
    CASE j.k = "num" -> Ok(Trunc(NumOf(j)))
      [] j.k = "bool" -> Ok(IF j.b THEN 1 ELSE 0)
      [] j.k = "str" ->
            IF IndexOf(StrChars(j.s), ".") = 0
            THEN Numerator(ParseNumber(StrChars(j.s)))
            ELSE Raise("ValueError")
      [] OTHER -> Raise("TypeError")

\* Decimal(str(x)): str(True) = "True", str(None) = "None", str of a list or
\* dict is its display; none of them is a numeral
OrInvalid(r) == IF r.ok THEN r ELSE Raise("InvalidOperation")
ToDecimal(j) ==
    CASE j.k = "num" -> Ok(NumOf(j))
      [] j.k = "str" -> OrInvalid(ParseNumber(StrChars(j.s)))
      [] OTHER -> Raise("InvalidOperation")

\* str(x) of a float: repr with a decimal point ("3.0", "2.5", "-0.25")
RECURSIVE FracChars(_, _)
FracChars(n, d) ==
    IF n = 0 THEN <<>>
    ELSE <<DigitChar((n * 10) \div d)>> \o FracChars((n * 10) % d, d)
FloatChars(r) ==
    LET a == Abs(r.n)
        ip == NatChars(a \div r.d)
        fp == IF a % r.d = 0 THEN <<"0">> ELSE FracChars(a % r.d, r.d)
    IN  (IF r.n < 0 THEN <<"-">> ELSE <<>>) \o ip \o <<".">> \o fp

\* str(x) of an int or of a float, as the value came out of JSON
NumChars(r) ==
    IF r.d = 1 THEN (IF r.n < 0 THEN <<"-">> ELSE <<>>) \o NatChars(Abs(r.n))
    ELSE FloatChars(r)

\* str.replace(old, new): every non-overlapping occurrence, left to right
RECURSIVE Replace(_, _, _)
Replace(cs, old, new) ==
    IF old = <<>> THEN
        IF cs = <<>> THEN new ELSE new \o <<cs[1]>> \o Replace(Tail(cs), old, new)
    ELSE IF Len(cs) < Len(old) THEN cs
    ELSE IF SubSeq(cs, 1, Len(old)) = old
         THEN new \o Replace(Tail_(cs, Len(old) + 1), old, new)
         ELSE <<cs[1]>> \o Replace(Tail(cs), old, new)

\* "a in b" for two strings
IsSubstring(a, b) ==
    \E i \in 1..(Len(b) + 1) :
        i + Len(a) - 1 <= Len(b) /\ SubSeq(b, i, i + Len(a) - 1) = a

\* str.split(".")
RECURSIVE SplitDots(_)
SplitDots(cs) ==
    LET i == IndexOf(cs, ".")
    IN  IF i = 0 THEN <<cs>>
        ELSE <<SubSeq(cs, 1, i - 1)>> \o SplitDots(Tail_(cs, i + 1))

(***************************************************************************)
(* eval(expr) of the host language on arithmetic text: numbers, unary and  *)
(* binary + -, * / %, parentheses, blanks, a call of a parenthesised       *)
(* value, and names (none is bound).  The inputs of the model stay inside  *)
(* this grammar (no **, no //, no comparison).                             *)
(***************************************************************************)
OpChars == {"+", "-", "*", "/", "%", "(", ")", " ", "."}
EndMark == "<end>"

RECURSIVE SkipSp(_, _)
SkipSp(cs, p) == IF p <= Len(cs) /\ cs[p] = " " THEN SkipSp(cs, p + 1) ELSE p

Peek(cs, p) == IF SkipSp(cs, p) <= Len(cs) THEN cs[SkipSp(cs, p)] ELSE EndMark

RECURSIVE NumEnd(_, _)
NumEnd(cs, p) ==
    IF p <= Len(cs) /\ cs[p] \in Digits \cup {"."} THEN NumEnd(cs, p + 1) ELSE p

FloorDiv(a, b) == IF a >= 0 THEN a \div b ELSE -((-a + b - 1) \div b)
RFloor(r) == FloorDiv(r.n, r.d)
RMod(a, b) == RSub(a, RMul(b, RInt(RFloor(RDiv(a, b)))))

\* The evaluator reads the text left to right with a stack of values and a
\* stack of pending operators.  rt is the first run-time error met in
\* evaluation order; it is raised only if the whole text parses, as a
\* syntax error is found before anything is evaluated.
Prec(op) ==
    CASE op \in {"u-", "u+"} -> 3
      [] op \in {"*", "/", "%"} -> 2
      [] op \in {"+", "-"} -> 1
      [] OTHER -> 0

Top(stack) == stack[Len(stack)]
Pop(stack) == SubSeq(stack, 1, Len(stack) - 1)
Pop2(stack) == SubSeq(stack, 1, Len(stack) - 2)
FirstError(st, e) == IF st.rt = "" THEN e ELSE st.rt

Reduce(st) ==
    LET op == Top(st.ops)
        b == Top(st.vals)
        a == st.vals[Len(st.vals) - 1]
    IN  IF op = "u-" THEN
            [st EXCEPT !.ops = Pop(@), !.vals = Append(Pop(@), RSub(RZero, b))]
        ELSE IF op = "u+" THEN [st EXCEPT !.ops = Pop(@)]
        ELSE IF op \in {"/", "%"} /\ b.n = 0 THEN
            [st EXCEPT !.ops = Pop(@), !.vals = Append(Pop2(@), RZero),
                       !.rt = FirstError(st, "ZeroDivisionError")]
        ELSE [st EXCEPT !.ops = Pop(@),
                        !.vals = Append(Pop2(@),
                            CASE op = "+" -> RAdd(a, b)
                              [] op = "-" -> RSub(a, b)
                              [] op = "*" -> RMul(a, b)
                              [] op = "/" -> RDiv(a, b)
                              [] op = "%" -> RMod(a, b))]

EvalStep(cs, st) ==
    LET p == SkipSp(cs, st.p)
        c == Peek(cs, p)
        e == NumEnd(cs, p)
        lit == ParseNumber(SubSeq(cs, p, e - 1))
        top == IF st.ops = <<>> THEN "" ELSE Top(st.ops)
        syntaxError == [st EXCEPT !.syn = TRUE, !.done = TRUE]
    IN  IF st.operand THEN
            IF c \in Digits \cup {"."} THEN
                IF lit.ok
                THEN [st EXCEPT !.vals = Append(@, lit.v), !.p = e, !.operand = FALSE]
                ELSE syntaxError
            ELSE IF c = "(" THEN [st EXCEPT !.ops = Append(@, "("), !.p = p + 1]
            ELSE IF c \in {"-", "+"} THEN
                [st EXCEPT !.ops = Append(@, IF c = "-" THEN "u-" ELSE "u+"), !.p = p + 1]
            ELSE IF c = ")" /\ top = "call(" THEN
                [st EXCEPT !.ops = Pop(@), !.p = p + 1, !.operand = FALSE,
                           !.rt = FirstError(st, "TypeError")]
            ELSE IF c \in OpChars \cup {EndMark, "{", "}"} THEN syntaxError
            ELSE [st EXCEPT !.vals = Append(@, RZero), !.p = p + 1, !.operand = FALSE,
                            !.rt = FirstError(st, "NameError")]
        ELSE
            IF c \in {"+", "-", "*", "/", "%"} THEN
                IF top # "" /\ Prec(top) >= Prec(c) THEN Reduce(st)
                ELSE [st EXCEPT !.ops = Append(@, c), !.p = p + 1, !.operand = TRUE]
            ELSE IF c = ")" THEN
                IF top = "" THEN syntaxError
                ELSE IF top = "(" THEN [st EXCEPT !.ops = Pop(@), !.p = p + 1]
                ELSE IF top = "call(" THEN
                    [st EXCEPT !.ops = Pop(@), !.vals = Pop(@), !.p = p + 1,
                               !.rt = FirstError(st, "TypeError")]
                ELSE Reduce(st)
            ELSE IF c = "(" THEN
                [st EXCEPT !.ops = Append(@, "call("), !.p = p + 1, !.operand = TRUE]
            ELSE IF c = EndMark THEN
                IF top = "" THEN [st EXCEPT !.done = TRUE]
                ELSE IF top \in {"(", "call("} THEN syntaxError
                ELSE Reduce(st)
            ELSE syntaxError

RECURSIVE EvalRun(_, _)
EvalRun(cs, st) == IF st.done THEN st ELSE EvalRun(cs, EvalStep(cs, st))

PyEval(cs) ==
    LET st == EvalRun(cs, [p |-> 1, vals |-> <<>>, ops |-> <<>>, operand |-> TRUE,
                           rt |-> "", syn |-> FALSE, done |-> FALSE])
    IN  IF st.syn THEN Raise("SyntaxError")
        ELSE IF st.rt # "" THEN Raise(st.rt)
        ELSE Ok(Top(st.vals))

\* try: ... except (caught): fallback
Catch(outcome, caught, fallback) ==
    IF ~outcome.ok /\ outcome.exc \in caught THEN Ok(fallback) ELSE outcome

AnyException ==
    {"ValueError", "TypeError", "SyntaxError", "ZeroDivisionError", "NameError",
     "AttributeError", "InvalidOperation"}

\* The characters QuoteCalculationService lets through to eval (safe_chars)
SafeChars == Digits \cup {".", "+", "-", "*", "/", "(", ")", " "}
IsSafeText(cs) == \A i \in 1..Len(cs) : cs[i] \in SafeChars

(***************************************************************************)
(* RuleEngine                                                              *)
(***************************************************************************)
\* A JSON object whose key order matters (dict.items() follows it)
ODict(m, order) == [k |-> "dict", m |-> m, order |-> order]

RECURSIVE SetSeq(_)
SetSeq(S) ==
    IF S = {} THEN <<>>
    ELSE LET x == CHOOSE y \in S : TRUE IN <<x>> \o SetSeq(S \ {x})

KeysInOrder(dct) == IF "order" \in DOMAIN dct THEN dct.order ELSE SetSeq(DOMAIN dct.m)

\* "for x in j": the elements, or TypeError when j is not iterable
Iterate(j) ==
    CASE j.k = "list" -> Ok(j.items)
      [] j.k = "str" -> Ok([i \in 1..Len(StrChars(j.s)) |-> Str(StrChars(j.s)[i])])
      [] j.k = "dict" -> Ok([i \in 1..Len(KeysInOrder(j)) |-> Str(KeysInOrder(j)[i])])
      [] OTHER -> Raise("TypeError")

\* "x in container"
Contains(container, x) ==
    CASE container.k = "list" ->
            Ok(\E i \in 1..Len(container.items) : PyEq(container.items[i], x))
      [] container.k = "str" ->
            IF x.k = "str" THEN Ok(IsSubstring(StrChars(x.s), StrChars(container.s)))
            ELSE Raise("TypeError")
      [] container.k = "dict" ->
            IF x.k \in {"list", "dict"} THEN Raise("TypeError")
            ELSE Ok(x.k = "str" /\ x.s \in DOMAIN container.m)
      [] OTHER -> Raise("TypeError")

RECURSIVE Walk(_, _)
Walk(value, keys) ==
    IF keys = <<>> THEN value
    ELSE IF value.k = "dict"
         THEN LET v == Get(value, CharsStr(keys[1]), Null)
              IN  IF v = Null THEN Null ELSE Walk(v, Tail(keys))
         ELSE Null

_get_nested_value(obj, path) ==
    IF ~Truthy(path) THEN Ok(Null)
    ELSE IF path.k # "str" THEN Raise("AttributeError")
    ELSE Ok(Walk(obj, SplitDots(StrChars(path.s))))

PosInf == [k |-> "num", n |-> 1, d |-> 0]
NegInf == [k |-> "num", n |-> -1, d |-> 0]

\* The first outcome that raised, if any
FirstRaise(outs) ==
    LET i == CHOOSE j \in 1..Len(outs) :
                ~outs[j].ok /\ \A h \in 1..(j - 1) : outs[h].ok
    IN  outs[i]

CompareFloats(a, l, h, loStrict, hiStrict) ==
    IF ~a.ok \/ ~l.ok \/ ~h.ok THEN Ok(FALSE)
    ELSE Ok((IF loStrict THEN RLt(l.v, a.v) ELSE RLe(l.v, a.v))
            /\ (IF hiStrict THEN RLt(a.v, h.v) ELSE RLe(a.v, h.v)))

NumericCompare(actual, lo, hi, loStrict, hiStrict) ==
    CompareFloats(ToFloat(actual), ToFloat(lo), ToFloat(hi), loStrict, hiStrict)

RECURSIVE evaluate_condition(_, _)
evaluate_condition(condition, context) ==
    IF condition.k # "dict" THEN Raise("AttributeError")
    ELSE
    LET condition_type == Get(condition, "type", Null)
        Is(t) == PyEq(condition_type, Str(t))
        actual == _get_nested_value(context, Get(condition, "parameter", Str("")))
        operator == Get(condition, "operator", Null)
    IN  IF Is("always") THEN Ok(TRUE)
        ELSE IF Is("never") THEN Ok(FALSE)
        ELSE IF Is("parameter_equals") THEN
            IF ~actual.ok THEN actual
            ELSE Ok(PyEq(actual.v, Get(condition, "value", Null)))
        ELSE IF Is("parameter_not_equals") THEN
            IF ~actual.ok THEN actual
            ELSE Ok(~PyEq(actual.v, Get(condition, "value", Null)))
        ELSE IF Is("parameter_in") THEN
            IF ~actual.ok THEN actual
            ELSE Contains(Get(condition, "values", List(<<>>)), actual.v)
        ELSE IF Is("parameter_greater_than") THEN
            IF ~actual.ok THEN actual
            ELSE IF actual.v = Null \/ Get(condition, "value", Null) = Null THEN Ok(FALSE)
            ELSE NumericCompare(actual.v, Get(condition, "value", Null), PosInf, TRUE, FALSE)
        ELSE IF Is("parameter_less_than") THEN
            IF ~actual.ok THEN actual
            ELSE IF actual.v = Null \/ Get(condition, "value", Null) = Null THEN Ok(FALSE)
            ELSE NumericCompare(actual.v, NegInf, Get(condition, "value", Null), FALSE, TRUE)
        ELSE IF Is("parameter_between") THEN
            IF ~actual.ok THEN actual
            ELSE IF actual.v = Null THEN Ok(FALSE)
            ELSE NumericCompare(actual.v, Get(condition, "min", NegInf),
                                Get(condition, "max", PosInf), FALSE, FALSE)
        ELSE IF Is("parameter_exists") THEN
            IF ~actual.ok THEN actual ELSE Ok(actual.v # Null)
        ELSE IF PyEq(operator, Str("AND")) \/ PyEq(operator, Str("OR")) THEN
            LET conditions == Get(condition, "conditions", List(<<>>))
                it == Iterate(conditions)
            IN  IF ~Truthy(conditions) THEN Ok(TRUE)
                ELSE IF ~it.ok THEN it
                ELSE LET results == [i \in 1..Len(it.v) |->
                                        evaluate_condition(it.v[i], context)]
                     IN  IF \E i \in 1..Len(results) : ~results[i].ok
                         THEN FirstRaise(results)
                         ELSE IF PyEq(operator, Str("AND"))
                              THEN Ok(\A i \in 1..Len(results) : results[i].v)
                              ELSE Ok(\E i \in 1..Len(results) : results[i].v)
        ELSE Ok(FALSE)

\* A scan that takes the first tier whose minVolume the volume reaches,
\* whatever its maxVolume
RECURSIVE TierScanUnbounded(_, _, _, _)
TierScanUnbounded(formula, tiers, i, volume_float) ==
    IF i > Len(tiers) THEN ToDecimal(Get(formula, "basePrice", Int_(0)))
    ELSE IF RLe(ToFloat(Get(tiers[i], "minVolume", Int_(0))).v, volume_float)
         THEN ToDecimal(Get(tiers[i], "price", Int_(0)))
         ELSE TierScanUnbounded(formula, tiers, i + 1, volume_float)

\* calculate_price, "tiered": the scan of the tiers from index i
RECURSIVE TierScan(_, _, _, _)
TierScan(formula, tiers, i, volume_float) ==
    IF i > Len(tiers) THEN ToDecimal(Get(formula, "basePrice", Int_(0)))
    ELSE LET tier == tiers[i]
         IN  IF tier.k # "dict" THEN Raise("AttributeError")
             ELSE LET min_vol == ToFloat(Get(tier, "minVolume", Int_(0)))
                      max_vol_raw == Get(tier, "maxVolume", Null)
                      max_vol == ToFloat(max_vol_raw)
                      price == ToDecimal(Get(tier, "price", Int_(0)))
                  IN  IF ~min_vol.ok THEN min_vol
                      ELSE IF max_vol_raw = Null THEN
                          IF RLe(min_vol.v, volume_float) THEN price
                          ELSE TierScan(formula, tiers, i + 1, volume_float)
                      ELSE IF ~max_vol.ok THEN max_vol
                      ELSE IF RLe(min_vol.v, volume_float) /\ RLe(volume_float, max_vol.v)
                           THEN price
                           ELSE TierScan(formula, tiers, i + 1, volume_float)

\* calculate_price, "calculated": eval_context as a sequence of
\* [name, text] bindings in the order of variables.items(), or the raise
\* that building it ends in
RECURSIVE EvalContext(_, _, _)
EvalContext(variables, names, context) ==
    IF names = <<>> THEN Ok(<<>>)
    ELSE LET var_name == names[1]
             value == _get_nested_value(context, variables.m[var_name])
             asFloat == ToFloat(value.v)
             text == IF value.v # Null /\ asFloat.ok THEN FloatChars(asFloat.v)
                     ELSE <<"0">>
             rest == EvalContext(variables, Tail(names), context)
         IN  IF ~value.ok THEN value
             ELSE IF ~rest.ok THEN rest
             ELSE Ok(<<[name |-> StrChars(var_name), text |-> text]>> \o rest.v)

RECURSIVE Substitute(_, _)
Substitute(expr, bindings) ==
    IF bindings = <<>> THEN expr
    ELSE Substitute(Replace(expr, bindings[1].name, bindings[1].text), Tail(bindings))

\* calculate_price, "calculated": the part before the try block
CalculatedSetup(formula, context) ==
    LET variables == Get(formula, "variables", EmptyDict)
    IN  IF variables.k # "dict" THEN Raise("AttributeError")
        ELSE EvalContext(variables, KeysInOrder(variables), context)

\* The text calculate_price hands to eval for a "calculated" formula whose
\* expression is a string
CalculatedExpr(formula, context) ==
    Substitute(StrChars(Get(formula, "formula", Str("")).s),
               CalculatedSetup(formula, context).v)

calculate_price(formula, context) ==
    IF formula.k # "dict" THEN Raise("AttributeError")
    ELSE
    LET formula_type == Get(formula, "type", Null)
        Is(t) == PyEq(formula_type, Str(t))
    IN  IF Is("fixed") THEN ToDecimal(Get(formula, "price", Int_(0)))
        ELSE IF Is("quantity_based") THEN
            LET price_per_unit == ToDecimal(Get(formula, "pricePerUnit", Int_(0)))
                found == _get_nested_value(context, Get(formula, "quantityParameter", Str("")))
                quantity == IF found.v = Null THEN Int_(0) ELSE found.v
                quantity_decimal == ToDecimal(quantity)
            IN  IF ~price_per_unit.ok THEN price_per_unit
                ELSE IF ~found.ok THEN found
                ELSE Catch(IF quantity_decimal.ok
                           THEN Ok(RMul(price_per_unit.v, quantity_decimal.v))
                           ELSE quantity_decimal,
                           {"ValueError", "TypeError"}, RZero)
        ELSE IF Is("tiered") THEN
            LET found == _get_nested_value(context, Get(formula, "volumeParameter", Str("")))
                volume == IF found.v = Null THEN Int_(0) ELSE found.v
                volume_float == Catch(ToFloat(volume), {"ValueError", "TypeError"}, RZero)
                tiers == Iterate(Get(formula, "tiers", List(<<>>)))
            IN  IF ~found.ok THEN found
                ELSE IF ~tiers.ok THEN tiers
                ELSE TierScan(formula, tiers.v, 1, volume_float.v)
        ELSE IF Is("calculated") THEN
            LET setup == CalculatedSetup(formula, context)
            IN  IF ~setup.ok THEN setup
                \* inside the try: replace or eval on a non-string raises
                ELSE IF Get(formula, "formula", Str("")).k # "str" THEN Ok(RZero)
                ELSE Catch(PyEval(CalculatedExpr(formula, context)), AnyException, RZero)
        ELSE Ok(RZero)

\* The texts one calculate_price call hands to eval
EvalInputs(formula, context) ==
    IF formula.k = "dict" /\ PyEq(Get(formula, "type", Null), Str("calculated"))
       /\ CalculatedSetup(formula, context).ok
       /\ Get(formula, "formula", Str("")).k = "str"
    THEN {CalculatedExpr(formula, context)}
    ELSE {}

\* evaluate_sku_selection_rule once the condition has answered
SelectionOf(rule, context, matched) ==
    LET quantity_raw == Get(rule, "quantity", Int_(1))
        found == _get_nested_value(context, quantity_raw)
        viaPath == Catch(ToInt(IF found.v = Null THEN Int_(1) ELSE found.v),
                         {"ValueError", "TypeError"}, 1)
        direct == IF Truthy(quantity_raw) THEN ToInt(quantity_raw) ELSE Ok(1)
        quantity == IF quantity_raw.k = "str" THEN viaPath ELSE direct
    IN  IF ~matched.ok THEN matched
        ELSE IF ~matched.v THEN Ok(Null)
        ELSE IF ~quantity.ok THEN quantity
        ELSE Ok([sku_code |-> Get(rule, "skuCode", Null),
                 quantity |-> quantity.v,
                 reason |-> Get(rule, "reason", Str(""))])

evaluate_sku_selection_rule(rule, context) ==
    IF rule.k # "dict" THEN Raise("AttributeError")
    ELSE SelectionOf(rule, context,
                     evaluate_condition(Get(rule, "condition", EmptyDict), context))

(***************************************************************************)
(* Inputs of the RuleEngine: contexts, conditions, formulas, rules.        *)
(***************************************************************************)
Contexts ==
    { EmptyDict,
      Dict("a" :> Int_(1)),
      Dict("a" :> Int_(-2)),
      Dict("a" :> Str("abc")),
      Dict("a" :> Str("2.5")),
      Dict(("a" :> Int_(3)) @@ ("m" :> Dict(("q" :> Int_(2)) @@ ("x" :> Bool(TRUE))))),
      Dict(("a" :> Bool(TRUE)) @@ ("m" :> Int_(5))) }

\* Values of a condition's "parameter": paths, an absent path, null, a number
Paths == {Str("a"), Str("m.q"), Str("zz"), Null, Int_(5)}

Operands ==
    {Int_(1), Int_(3), Str("2.5"), Str("abc"), Null, Bool(TRUE),
     List(<<Int_(1), Str("abc")>>)}

Cond(t, p) == Dict(("type" :> Str(t)) @@ ("parameter" :> p))
With(dct, key, v) == Dict((key :> v) @@ dct.m)

ValueTypes ==
    {"parameter_equals", "parameter_not_equals", "parameter_greater_than",
     "parameter_less_than", "parameter_exists"}

SupportedConditionTypes ==
    ValueTypes \cup {"always", "never", "parameter_in", "parameter_between"}

ValueConds ==
    {Cond(t, p) : t \in ValueTypes, p \in Paths}
    \cup {With(Cond(t, p), "value", v) : t \in ValueTypes, p \in Paths, v \in Operands}

InConds ==
    {Cond("parameter_in", p) : p \in Paths}
    \cup {With(Cond("parameter_in", p), "values", v) :
            p \in Paths, v \in Operands \cup {Int_(5), Dict("abc" :> Int_(1))}}

BetweenConds ==
    {Cond("parameter_between", p) : p \in Paths}
    \cup {With(Cond("parameter_between", p), "min", v) : p \in Paths, v \in Operands}
    \cup {With(With(Cond("parameter_between", p), "min", Int_(1)), "max", v) :
            p \in Paths, v \in Operands}

PlainConds ==
    {EmptyDict, Dict("type" :> Str("always")), Dict("type" :> Str("never")),
     Dict("type" :> Str("bogus")), Dict("type" :> Null),
     With(Cond("bogus", Str("a")), "value", Int_(1))}

Compound(op, cs) == Dict(("operator" :> Str(op)) @@ ("conditions" :> cs))

SubConditionLists ==
    { List(<<>>),
      List(<<Dict("type" :> Str("always"))>>),
      List(<<Dict("type" :> Str("always")), Dict("type" :> Str("never"))>>),
      List(<<Dict("type" :> Str("never")),
             With(Cond("parameter_greater_than", Str("a")), "value", Int_(1))>>),
      List(<<Compound("OR", List(<<Dict("type" :> Str("never")),
                                   With(Cond("parameter_equals", Str("m.q")), "value", Int_(2))>>)),
             Cond("parameter_exists", Str("a"))>>),
      List(<<Dict("type" :> Str("always")), Str("abc")>>),
      List(<<Null>>),
      Int_(5),
      Null }

CompoundConds ==
    {Compound(op, cs) : op \in {"AND", "OR", "XOR"}, cs \in SubConditionLists}
    \cup {Dict("operator" :> Str(op)) : op \in {"AND", "OR"}}
    \cup {With(Compound(op, cs), "type", Str("bogus")) :
            op \in {"AND", "OR"}, cs \in SubConditionLists}

Conditions == ValueConds \cup InConds \cup BetweenConds \cup PlainConds \cup CompoundConds

Formula(t) == Dict("type" :> Str(t))

FixedFormulas ==
    {Formula("fixed")}
    \cup {With(Formula("fixed"), "price", v) :
            v \in {Int_(2950), Num(Rat(5, 2)), Str("2.5"), Str("abc"), Null}}

QuantityFormulas ==
    {With(Formula("quantity_based"), "quantityParameter", p) : p \in Paths}
    \cup {With(With(Formula("quantity_based"), "pricePerUnit", u), "quantityParameter", p) :
            u \in {Int_(60), Num(Rat(5, 2)), Str("abc")}, p \in Paths}
    \cup {With(Formula("quantity_based"), "pricePerUnit", Int_(60))}

Tier(lo, hi, price) ==
    Dict(("minVolume" :> lo) @@ ("maxVolume" :> hi) @@ ("price" :> price))

TierLists ==
    { List(<<>>),
      List(<<Tier(Int_(0), Int_(1), Int_(10)), Tier(Int_(2), Null, Int_(20))>>),
      List(<<Tier(Int_(0), Int_(2), Int_(10)), Tier(Int_(1), Int_(3), Int_(20))>>),
      List(<<Tier(Int_(2), Int_(2), Int_(10)), Tier(Int_(4), Null, Int_(20))>>),
      List(<<Tier(Int_(0), Int_(1), Str("abc")), Tier(Str("abc"), Null, Int_(20))>>),
      List(<<Dict("price" :> Int_(10)), Str("abc")>>),
      Int_(5) }

TieredFormulas ==
    {With(With(Formula("tiered"), "volumeParameter", p), "tiers", ts) :
        p \in {Str("a"), Str("m.q"), Str("zz")}, ts \in TierLists}
    \cup {With(With(With(Formula("tiered"), "volumeParameter", p), "tiers", ts),
               "basePrice", Int_(5)) :
            p \in {Str("a"), Str("m.q")}, ts \in TierLists}
    \cup {Formula("tiered")}

ExpressionTexts ==
    {Str("2+3"), Str("7%4"), Str("1/0"), Str("2+"), Str("x*2"), Str("(x+1)*3"),
     Str("(1)(2)"), Str("6 / 4"), Str(""), Str("x+xy")}

VariableMaps ==
    { EmptyDict,
      ODict("x" :> Str("a"), <<"x">>),
      ODict("x" :> Str("m.q"), <<"x">>),
      ODict("x" :> Int_(5), <<"x">>),
      \* two variables, one name inside the other, declared in either order
      ODict(("x" :> Str("a")) @@ ("xy" :> Str("m.q")), <<"x", "xy">>),
      ODict(("x" :> Str("a")) @@ ("xy" :> Str("m.q")), <<"xy", "x">>),
      Int_(5) }

CalculatedFormulas ==
    {With(With(Formula("calculated"), "formula", e), "variables", vs) :
        e \in ExpressionTexts \cup {Int_(5)}, vs \in VariableMaps}
    \cup {With(Formula("calculated"), "formula", e) : e \in ExpressionTexts}
    \cup {Formula("calculated")}

SupportedFormulaTypes == {"fixed", "quantity_based", "tiered", "calculated"}

UnknownFormulas ==
    { EmptyDict, Formula("bogus"), Dict("type" :> Null),
      With(Formula("bogus"), "price", Int_(2950)),
      With(With(Formula("weighted_sum"), "pricePerUnit", Int_(60)),
           "quantityParameter", Str("a")),
      With(Formula("lookup"), "formula", Str("2+3")) }

Formulas ==
    FixedFormulas \cup QuantityFormulas \cup TieredFormulas \cup CalculatedFormulas
    \cup UnknownFormulas

SelectionRule(c, q) ==
    Dict(("condition" :> c) @@ ("skuCode" :> Str("SKU-A")) @@ ("quantity" :> q)
         @@ ("reason" :> Str("because")))

SelectionRules ==
    {SelectionRule(c, q) :
        c \in {Dict("type" :> Str("always")), Dict("type" :> Str("never")),
               With(Cond("parameter_greater_than", Str("a")), "value", Int_(0)),
               Str("abc")},
        q \in {Int_(1), Int_(3), Int_(0), Str("a"), Str("m.q"), Str("zz"), Null,
               Num(Rat(5, 2)), List(<<Int_(1)>>)}}
    \cup {Dict("skuCode" :> Str("SKU-A")),
          Dict(("condition" :> Dict("type" :> Str("always"))) @@ ("skuCode" :> Str("SKU-A")))}

(***************************************************************************)
(* The RuleEngine as a state machine: one request per step.                *)
(***************************************************************************)
Pending == [ok |-> FALSE, exc |-> "<pending>"]

RuleRequests ==
    {[op |-> "evaluate_condition", condition |-> c, context |-> x] :
        c \in Conditions, x \in Contexts}
    \cup {[op |-> "calculate_price", formula |-> f, context |-> x] :
            f \in Formulas, x \in Contexts}
    \cup {[op |-> "evaluate_sku_selection_rule", rule |-> r, context |-> x] :
            r \in SelectionRules, x \in Contexts}

InitRule ==
    /\ call \in RuleRequests
    /\ ret = Pending
    /\ evald = {}
    /\ svc = NoServices
    /\ db = Null

EvaluateCondition ==
    /\ call.op = "evaluate_condition"
    /\ ret = Pending
    /\ ret' = evaluate_condition(call.condition, call.context)
    /\ UNCHANGED <<call, evald, db, svc>>

CalculatePrice ==
    /\ call.op = "calculate_price"
    /\ ret = Pending
    /\ ret' = calculate_price(call.formula, call.context)
    /\ evald' = EvalInputs(call.formula, call.context)
    /\ UNCHANGED <<call, db, svc>>

EvaluateSkuSelectionRule ==
    /\ call.op = "evaluate_sku_selection_rule"
    /\ ret = Pending
    /\ ret' = evaluate_sku_selection_rule(call.rule, call.context)
    /\ UNCHANGED <<call, evald, db, svc>>

NextRule == EvaluateCondition \/ CalculatePrice \/ EvaluateSkuSelectionRule

SpecRule == InitRule /\ [][NextRule]_vars

Returned == ret # Pending

(***************************************************************************)
(* Properties of the RuleEngine.                                           *)
(***************************************************************************)
TypeIs(dct, t) == dct.k = "dict" /\ PyEq(Get(dct, "type", Null), Str(t))

\* C3: a calculated formula whose text, after variable substitution, holds a
\* character outside digits . + - * / ( ) and blank is never handed to the
\* host-language eval, and its price is 0.
C3_UnsafeFormulaNeverEvaluated ==
    (/\ Returned
     /\ call.op = "calculate_price"
     /\ TypeIs(call.formula, "calculated")
     /\ CalculatedSetup(call.formula, call.context).ok
     /\ Get(call.formula, "formula", Str("")).k = "str"
     /\ ~IsSafeText(CalculatedExpr(call.formula, call.context)))
    => /\ CalculatedExpr(call.formula, call.context) \notin evald
       /\ ret = Ok(RZero)

\* C8: a quantity_based formula is priced unitPrice * max(0, q), q being the
\* context value at the quantity parameter, 0 if absent; a negative quantity
\* gives 0 and a non-numeric quantity gives 0 without raising.
QuantityAt(formula, context) ==
    LET found == _get_nested_value(context, Get(formula, "quantityParameter", Str(""))).v
    IN  IF found = Null \/ ~ToDecimal(found).ok THEN RZero ELSE ToDecimal(found).v

C8_QuantityBasedPrice ==
    (/\ Returned
     /\ call.op = "calculate_price"
     /\ TypeIs(call.formula, "quantity_based")
     /\ Get(call.formula, "pricePerUnit", Null).k = "num"
     /\ Get(call.formula, "quantityParameter", Str("")).k = "str")
    => ret = Ok(RMul(NumOf(call.formula.m["pricePerUnit"]),
                     RMax(RZero, QuantityAt(call.formula, call.context))))

\* C9: evaluate_condition returns a boolean and never raises, whatever the
\* condition record and the context; a numeric comparison with an absent or
\* non-coercible operand is false.
NotCoercible(j) == j = Null \/ ~ToFloat(j).ok

BadNumericOperand(condition, context) ==
    LET path == Get(condition, "parameter", Str(""))
        actual == _get_nested_value(context, path).v
    IN  /\ path.k = "str"
        /\ \/ /\ \/ TypeIs(condition, "parameter_greater_than")
                 \/ TypeIs(condition, "parameter_less_than")
              /\ \/ NotCoercible(actual)
                 \/ NotCoercible(Get(condition, "value", Null))
           \/ /\ TypeIs(condition, "parameter_between")
              /\ \/ NotCoercible(actual)
                 \/ NotCoercible(Get(condition, "min", Int_(0)))
                 \/ NotCoercible(Get(condition, "max", Int_(0)))

C9_ConditionNeverRaises ==
    (Returned /\ call.op = "evaluate_condition")
    => /\ ret.ok
       /\ ret.v \in BOOLEAN
       /\ BadNumericOperand(call.condition, call.context) => ret.v = FALSE

\* C10: a condition whose type tag is none of the supported variants is
\* false whatever other fields it carries, and a formula whose type tag is
\* none of the supported variants is priced 0.
UnknownTag(dct, supported) ==
    /\ dct.k = "dict"
    /\ Get(dct, "type", Null).k = "str"
    /\ Get(dct, "type", Null).s \notin supported

C10_FailClosed ==
    Returned =>
        /\ (call.op = "evaluate_condition"
            /\ UnknownTag(call.condition, SupportedConditionTypes))
           => ret = Ok(FALSE)
        /\ (call.op = "calculate_price"
            /\ UnknownTag(call.formula,
                          SupportedFormulaTypes \cup {"weighted_sum", "lookup", "expression"}))
           => ret = Ok(RZero)

\* C11: a calculated formula is priced at the value of its expression with
\* every declared variable bound to its context value (0 if missing or
\* non-numeric), whatever the order of declaration and whether or not one
\* variable name is contained in another; a failing evaluation, division
\* by zero included, gives 0 and nothing is raised.
IsNameChar(c) == c \notin OpChars \cup Digits \cup {"{", "}", "%"}

RECURSIVE NameEnd(_, _)
NameEnd(cs, p) ==
    IF p <= Len(cs) /\ (IsNameChar(cs[p]) \/ cs[p] \in Digits) THEN NameEnd(cs, p + 1)
    ELSE p

BoundTo(name, bindings) ==
    IF \E i \in 1..Len(bindings) : bindings[i].name = name
    THEN <<"(">> \o bindings[CHOOSE i \in 1..Len(bindings) : bindings[i].name = name].text
         \o <<")">>
    ELSE name

\* The expression with each whole name replaced by the value bound to it
RECURSIVE BindNames(_, _, _)
BindNames(cs, p, bindings) ==
    IF p > Len(cs) THEN <<>>
    ELSE IF IsNameChar(cs[p])
         THEN BoundTo(SubSeq(cs, p, NameEnd(cs, p) - 1), bindings)
              \o BindNames(cs, NameEnd(cs, p), bindings)
         ELSE <<cs[p]>> \o BindNames(cs, p + 1, bindings)

DeclaresVariables(formula) ==
    /\ TypeIs(formula, "calculated")
    /\ Get(formula, "formula", Str("")).k = "str"
    /\ Get(formula, "variables", EmptyDict).k = "dict"
    /\ \A name \in DOMAIN Get(formula, "variables", EmptyDict).m :
            Get(formula, "variables", EmptyDict).m[name].k = "str"

C11_CalculatedByBinding ==
    (Returned /\ call.op = "calculate_price" /\ DeclaresVariables(call.formula))
    => ret = Catch(PyEval(BindNames(StrChars(Get(call.formula, "formula", Str("")).s), 1,
                                    CalculatedSetup(call.formula, call.context).v)),
                   AnyException, RZero)

\* C12: a tiered formula is priced at the price of the first tier, in list
\* order, with minVolume <= volume and (maxVolume null or volume <=
\* maxVolume), so the earlier of two overlapping tiers wins; with no matching
\* tier the price is the formula's basePrice if configured and 0 otherwise;
\* an absent or non-numeric volume counts as 0.
IsNum(j) == j.k = "num"

WellFormedTiered(formula) ==
    /\ TypeIs(formula, "tiered")
    /\ Get(formula, "volumeParameter", Null).k = "str"
    /\ Get(formula, "tiers", Null).k = "list"
    /\ \A i \in 1..Len(formula.m["tiers"].items) :
        LET tier == formula.m["tiers"].items[i]
        IN  /\ tier.k = "dict"
            /\ IsNum(Get(tier, "minVolume", Null))
            /\ IsNum(Get(tier, "price", Null))
            /\ Get(tier, "maxVolume", Null) = Null \/ IsNum(Get(tier, "maxVolume", Null))
    /\ IsNum(Get(formula, "basePrice", Int_(0)))

VolumeAt(formula, context) ==
    LET found == _get_nested_value(context, formula.m["volumeParameter"]).v
    IN  IF found = Null \/ ~ToFloat(found).ok THEN RZero ELSE ToFloat(found).v

MatchingTiers(formula, context) ==
    {i \in 1..Len(formula.m["tiers"].items) :
        LET tier == formula.m["tiers"].items[i]
        IN  /\ RLe(NumOf(tier.m["minVolume"]), VolumeAt(formula, context))
            /\ \/ Get(tier, "maxVolume", Null) = Null
               \/ RLe(VolumeAt(formula, context), NumOf(Get(tier, "maxVolume", Null)))}

FirstOf(S) == CHOOSE i \in S : \A j \in S : i <= j

C12_FirstMatchingTier ==
    (Returned /\ call.op = "calculate_price" /\ WellFormedTiered(call.formula))
    => ret = Ok(IF MatchingTiers(call.formula, call.context) = {}
                THEN NumOf(Get(call.formula, "basePrice", Int_(0)))
                ELSE NumOf(call.formula.m["tiers"].items[
                        FirstOf(MatchingTiers(call.formula, call.context))].m["price"]))

\* two overlapping tiers both hold the volume and the earlier one is priced
C12_Witness ==
    /\ Returned
    /\ call.op = "calculate_price"
    /\ WellFormedTiered(call.formula)
    /\ Cardinality(MatchingTiers(call.formula, call.context)) = 2
    /\ ret = Ok(NumOf(call.formula.m["tiers"].items[1].m["price"]))

\* C13: evaluate_sku_selection_rule never raises; it returns none when the
\* rule's condition is false; otherwise it returns the rule's item code with
\* the quantity the rule gives as a literal integer or, when the quantity is
\* a context path, the integer found at that path, 1 if the value there is
\* absent or not numeric.
ConditionOf(rule, context) == evaluate_condition(Get(rule, "condition", EmptyDict), context)

IsInteger(j) == j.k = "num" /\ j.d = 1

QuantityAtPath(path, context) ==
    LET found == _get_nested_value(context, path).v
    IN  IF IsInteger(found) THEN found.n
        ELSE IF found.k = "num" THEN Trunc(NumOf(found))
        ELSE 1

C13_SelectionNeverRaises ==
    (Returned /\ call.op = "evaluate_sku_selection_rule")
    => /\ ret.ok
       /\ ConditionOf(call.rule, call.context).ok
       /\ ~ConditionOf(call.rule, call.context).v => ret.v = Null
       /\ ConditionOf(call.rule, call.context).v =>
            /\ ret.v # Null
            /\ ret.v.sku_code = Get(call.rule, "skuCode", Null)
            /\ IsInteger(Get(call.rule, "quantity", Null)) =>
                    ret.v.quantity = call.rule.m["quantity"].n
            /\ Get(call.rule, "quantity", Null).k = "str" =>
                    ret.v.quantity = QuantityAtPath(call.rule.m["quantity"], call.context)

(***************************************************************************)
(* ConfigurationService and QuoteCalculationService.                       *)
(*                                                                         *)
(* db.versions maps a pricing version id to its IsCurrent flag; db.rules   *)
(* is the set of PricingRules rows.                                        *)
(***************************************************************************)
\* pricing_version_id = None: no version pinned at construction
NoVersion == 0

\* ConfigurationService.get_pricing_version_id with nothing cached
get_pricing_version_id(store, pinned) ==
    IF pinned # NoVersion THEN Ok(pinned)
    ELSE IF \E v \in DOMAIN store.versions : store.versions[v].IsCurrent
         THEN Ok(CHOOSE v \in DOMAIN store.versions : store.versions[v].IsCurrent)
         ELSE Raise("ValueError")

\* The same query without its IsActive filter
RuleRowsAnyState(store, version, rule_code) ==
    {r \in store.rules : r.PricingVersionId = version /\ r.RuleCode = rule_code}

\* The rows the query of _get_rule selects
RuleRows(store, version, rule_code) ==
    {r \in store.rules :
        r.PricingVersionId = version /\ r.RuleCode = rule_code /\ r.IsActive}

\* QuoteCalculationService._get_rule on a fresh instance (empty _rules_cache)
_get_rule(store, rule_code) ==
    LET pricing_version_id == get_pricing_version_id(store, NoVersion)
        rows == RuleRows(store, pricing_version_id.v, rule_code)
    IN  IF ~pricing_version_id.ok THEN pricing_version_id
        ELSE IF rows = {} THEN Ok(Null)
        ELSE Ok((CHOOSE r \in rows : TRUE).Configuration)

\* _evaluate_formula, "weighted_sum": the loop over the components from i
RECURSIVE WeightedSum(_, _, _)
WeightedSum(components, i, parameters) ==
    IF i > Len(components) THEN Ok(RZero)
    ELSE LET component == components[i]
             weight == ToDecimal(Get(component, "weight", Int_(1)))
             param_name == Get(component, "parameter", Str(""))
             value == ToDecimal(IF param_name.k = "str"
                                THEN Get(parameters, param_name.s, Int_(0))
                                ELSE Int_(0))
             rest == WeightedSum(components, i + 1, parameters)
         IN  IF component.k # "dict" THEN Raise("AttributeError")
             ELSE IF ~weight.ok THEN weight
             ELSE IF ~value.ok THEN value
             ELSE IF ~rest.ok THEN rest
             ELSE Ok(RAdd(RMul(value.v, weight.v), rest.v))

\* str(param_value) as the "expression" formula substitutes it
ValueChars(j) ==
    CASE j.k = "num" -> NumChars(NumOf(j))
      [] j.k = "str" -> StrChars(j.s)
      [] j.k = "bool" -> IF j.b THEN <<"True">> ELSE <<"False">>
      [] OTHER -> <<"None">>

\* _evaluate_formula, "expression": the {name} placeholders replaced
RECURSIVE FillPlaceholders(_, _, _)
FillPlaceholders(expression, names, parameters) ==
    IF names = <<>> THEN expression
    ELSE FillPlaceholders(
            Replace(expression, <<"{">> \o StrChars(names[1]) \o <<"}">>,
                    ValueChars(parameters.m[names[1]])),
            Tail(names), parameters)

_evaluate_formula(formula_config, parameters) ==
    IF formula_config.k # "dict" THEN Raise("AttributeError")
    ELSE
    LET formula_type == Get(formula_config, "type", Str("weighted_sum"))
        Is(t) == PyEq(formula_type, Str(t))
    IN  IF Is("weighted_sum") THEN
            LET components == Iterate(Get(formula_config, "components", List(<<>>)))
            IN  IF ~components.ok THEN components
                ELSE WeightedSum(components.v, 1, parameters)
        ELSE IF Is("expression") THEN
            LET raw == Get(formula_config, "expression", Str("0"))
                expression == FillPlaceholders(StrChars(raw.s), KeysInOrder(parameters),
                                               parameters)
            IN  IF raw.k # "str" THEN Raise("AttributeError")
                ELSE IF IsSafeText(expression)
                     THEN Catch(PyEval(expression),
                                {"ValueError", "SyntaxError", "ZeroDivisionError"}, RZero)
                     ELSE Ok(RZero)
        ELSE IF Is("lookup") THEN
            LET param_name == Get(formula_config, "parameter", Str(""))
            IN  ToDecimal(IF param_name.k = "str"
                          THEN Get(parameters, param_name.s, Int_(0))
                          ELSE Int_(0))
        ELSE Ok(RZero)

\* The texts one _evaluate_formula call hands to eval
ExpressionEvalInputs(formula_config, parameters) ==
    IF /\ formula_config.k = "dict"
       /\ PyEq(Get(formula_config, "type", Str("weighted_sum")), Str("expression"))
       /\ Get(formula_config, "expression", Str("0")).k = "str"
       /\ IsSafeText(FillPlaceholders(
              StrChars(Get(formula_config, "expression", Str("0")).s),
              KeysInOrder(parameters), parameters))
    THEN {FillPlaceholders(StrChars(Get(formula_config, "expression", Str("0")).s),
                           KeysInOrder(parameters), parameters)}
    ELSE {}

\* The texts one calculate_complexity_factor call hands to eval
ComplexityEvalInputs(rule, parameters) ==
    IF rule.ok /\ Truthy(rule.v) /\ rule.v.k = "dict"
    THEN ExpressionEvalInputs(Get(rule.v, "formula", EmptyDict), parameters)
    ELSE {}

\* "a <= b" between JSON numbers; Python raises TypeError on other types
IsNumber(j) == j.k \in {"num", "bool"}

\* _find_tier: the scan from index i; Ok(Null) when the list is exhausted
RECURSIVE FindTierFrom(_, _, _)
FindTierFrom(tiers, i, score) ==
    IF i > Len(tiers) THEN Ok(Null)
    ELSE LET tier == tiers[i]
             raw_min == Get(tier, "min_score", Int_(0))
             raw_max == Get(tier, "max_score", Null)
             min_score == IF raw_min = Null THEN NegInf ELSE raw_min
             max_score == IF raw_max = Null THEN PosInf ELSE raw_max
         IN  IF tier.k # "dict" THEN Raise("AttributeError")
             ELSE IF ~IsNumber(min_score) THEN Raise("TypeError")
             ELSE IF ~RLe(AsNumber(min_score), score)
                  THEN FindTierFrom(tiers, i + 1, score)
             ELSE IF ~IsNumber(max_score) THEN Raise("TypeError")
             ELSE IF RLe(score, AsNumber(max_score)) THEN Ok(tier)
             ELSE FindTierFrom(tiers, i + 1, score)

_find_tier(tiers, score) ==
    LET items == Iterate(tiers)
        found == FindTierFrom(items.v, 1, score)
    IN  IF ~items.ok THEN items
        ELSE IF ~found.ok THEN found
        ELSE IF found.v # Null THEN found
        ELSE IF Len(items.v) > 0 THEN Ok(items.v[Len(items.v)])
        ELSE Ok(Null)

\* Arithmetic of Python on JSON numbers: TypeError on anything else
PySub(a, b) ==
    IF IsNumber(a) /\ IsNumber(b) THEN Ok(RSub(AsNumber(a), AsNumber(b)))
    ELSE Raise("TypeError")

ComplexityDefaults(score, tier_name, error) ==
    [complexity_score |-> score, tier |-> Str("UNKNOWN"), tier_name |-> tier_name,
     base_price |-> RZero, estimated_hours |-> Int_(0), sku_code |-> Null,
     additional_dept_count |-> RZero, additional_dept_price |-> RZero,
     total_org_setup_price |-> RZero, error |-> error]

\* The overage without its floor at 0
AdditionalUnclamped(price_per_item, diff) ==
    IF ~price_per_item.ok THEN price_per_item
    ELSE IF ~diff.ok THEN diff
    ELSE Ok([count |-> diff.v, price |-> RMul(price_per_item.v, diff.v)])

\* calculate_complexity_factor: the "additional items" count and price
AdditionalOf(price_per_item, diff) ==
    IF ~price_per_item.ok THEN price_per_item
    ELSE IF ~diff.ok THEN diff
    \* Decimal * float: a positive count that is no whole number is a float
    ELSE IF RLt(RZero, diff.v) /\ diff.v.d # 1 THEN Raise("TypeError")
    ELSE Ok([count |-> RMax(RZero, diff.v),
             price |-> RMul(price_per_item.v, RMax(RZero, diff.v))])

AdditionalItems(additional_config, parameters) ==
    IF ~Truthy(additional_config) THEN Ok([count |-> RZero, price |-> RZero])
    ELSE IF additional_config.k # "dict" THEN Raise("AttributeError")
    ELSE LET source_param == Get(additional_config, "source_parameter", Str("departments"))
             source_value == IF source_param.k = "str"
                             THEN Get(parameters, source_param.s, Int_(0))
                             ELSE Int_(0)
         IN  AdditionalOf(ToDecimal(Get(additional_config, "price_per_item", Int_(0))),
                          PySub(source_value,
                                Get(additional_config, "first_included", Int_(1))))

\* calculate_complexity_factor from "Extract tier details" on
ComplexityResult(complexity_score, tiers, tier, base_price, additional) ==
    IF ~base_price.ok THEN base_price
    ELSE IF ~additional.ok THEN additional
    \* tier_thresholds reads t.get(...) of every tier
    ELSE IF \E i \in 1..Len(tiers) : tiers[i].k # "dict" THEN Raise("AttributeError")
    ELSE Ok([complexity_score |-> complexity_score,
             tier |-> Get(tier, "code", Str("UNKNOWN")),
             tier_name |-> Get(tier, "name", Str("Unknown")),
             base_price |-> base_price.v,
             estimated_hours |-> Get(tier, "estimated_hours", Int_(0)),
             sku_code |-> Get(tier, "sku_code", Null),
             additional_dept_count |-> additional.v.count,
             additional_dept_price |-> additional.v.price,
             total_org_setup_price |-> RAdd(base_price.v, additional.v.price),
             error |-> Null])

\* calculate_complexity_factor once _find_tier has answered
ComplexityOfTier(rule, parameters, complexity_score, matched_tier) ==
    IF ~matched_tier.ok THEN matched_tier
    ELSE IF ~Truthy(matched_tier.v) THEN
        Ok(ComplexityDefaults(complexity_score, Str("No Matching Tier"),
                              Str("No tier matches the calculated score")))
    ELSE IF matched_tier.v.k # "dict" THEN Raise("AttributeError")
    ELSE ComplexityResult(complexity_score, Iterate(Get(rule, "tiers", List(<<>>))).v,
                          matched_tier.v,
                          ToDecimal(Get(matched_tier.v, "base_price", Int_(0))),
                          AdditionalItems(Get(rule, "additional_items", EmptyDict),
                                          parameters))

\* calculate_complexity_factor once _evaluate_formula has answered
ComplexityOfScore(rule, parameters, complexity_score) ==
    IF ~complexity_score.ok THEN complexity_score
    ELSE ComplexityOfTier(rule, parameters, complexity_score.v,
                          _find_tier(Get(rule, "tiers", List(<<>>)), complexity_score.v))

\* calculate_complexity_factor once _get_rule has answered
ComplexityOfRule(rule, parameters) ==
    IF ~rule.ok THEN rule
    ELSE IF ~Truthy(rule.v) THEN
        Ok(ComplexityDefaults(RZero, Str("Not Configured"),
                              Str("COMPLEXITY_FACTOR rule not configured")))
    ELSE IF rule.v.k # "dict" THEN Raise("AttributeError")
    ELSE ComplexityOfScore(
            rule.v, parameters,
            _evaluate_formula(
                Get(rule.v, "formula",
                    Dict(("type" :> Str("weighted_sum")) @@ ("components" :> List(<<>>)))),
                parameters))

calculate_complexity_factor(store, parameters) ==
    ComplexityOfRule(_get_rule(store, "COMPLEXITY_FACTOR"), parameters)

\* apply_discounts: the percentage p applied to an amount, x * (1 - p / 100)
LessPercent(x, pct) == RMul(x, RSub(RInt(1), RDiv(pct, RInt(100))))

\* apply_discounts, SaaS: all-years discount, then year 1 on top
SaasMonthlyAfterAllYears(saas_monthly, saas_all_years_pct) ==
    LessPercent(saas_monthly, saas_all_years_pct)

\* The year-1 percentage on the undiscounted annual figure
SaasAnnualYear1Only(saas_monthly, saas_all_years_pct, saas_year1_pct) ==
    LessPercent(RMul(saas_monthly, RInt(12)), saas_year1_pct)

SaasAnnualYear1After(saas_monthly, saas_all_years_pct, saas_year1_pct) ==
    LessPercent(RMul(SaasMonthlyAfterAllYears(saas_monthly, saas_all_years_pct), RInt(12)),
                saas_year1_pct)

\* The fixed discount taken off without a floor
SetupLessFixed(setup_total, setup_fixed) == RSub(setup_total, setup_fixed)

\* setup_after_fixed = max(Decimal("0"), setup_total - setup_fixed)
SetupAfterFixed(setup_total, setup_fixed) == RMax(RZero, RSub(setup_total, setup_fixed))

\* The opposite order: the percentage first, then the fixed discount
SetupPercentageFirst(setup_total, setup_fixed, setup_pct) ==
    RMax(RZero, RSub(LessPercent(setup_total, setup_pct), setup_fixed))

\* apply_discounts, setup: fixed discount first, then the percentage
SetupAfter(setup_total, setup_fixed, setup_pct) ==
    LessPercent(SetupAfterFixed(setup_total, setup_fixed), setup_pct)

apply_discounts(saas_monthly, setup_total, discount_config) ==
    LET config == IF Truthy(discount_config) THEN discount_config ELSE EmptyDict
        saas_year1_pct == ToDecimal(Get(config, "saas_year1_pct", Int_(0)))
        saas_all_years_pct == ToDecimal(Get(config, "saas_all_years_pct", Int_(0)))
        setup_fixed == ToDecimal(Get(config, "setup_fixed", Int_(0)))
        setup_pct == ToDecimal(Get(config, "setup_pct", Int_(0)))
        saas_year1_discount_amount ==
            RSub(RMul(saas_monthly, RInt(12)),
                 SaasAnnualYear1After(saas_monthly, saas_all_years_pct.v, saas_year1_pct.v))
        setup_after == SetupAfter(setup_total, setup_fixed.v, setup_pct.v)
        setup_discount_amount == RSub(setup_total, setup_after)
    IN  IF config.k # "dict" THEN Raise("AttributeError")
        ELSE IF ~saas_year1_pct.ok THEN saas_year1_pct
        ELSE IF ~saas_all_years_pct.ok THEN saas_all_years_pct
        ELSE IF ~setup_fixed.ok THEN setup_fixed
        ELSE IF ~setup_pct.ok THEN setup_pct
        ELSE Ok([saas_monthly_before |-> saas_monthly,
                 saas_monthly_after |->
                    SaasMonthlyAfterAllYears(saas_monthly, saas_all_years_pct.v),
                 saas_year1_discount_amount |-> saas_year1_discount_amount,
                 saas_all_years_discount_pct |-> saas_all_years_pct.v,
                 setup_before |-> setup_total,
                 setup_after |-> setup_after,
                 setup_discount_amount |-> setup_discount_amount,
                 total_discount_year1 |->
                    RAdd(saas_year1_discount_amount, setup_discount_amount)])

\* list.append inside a loop: the entry of this turn before those of the
\* later turns, or the first raise
Extended(entry, rest) ==
    IF ~entry.ok THEN entry
    ELSE IF ~rest.ok THEN rest
    ELSE Ok(<<entry.v>> \o rest.v)

\* No escalation under a model name that is not recognized
EscalationRateOfKnownModels(escalation_model) ==
    IF escalation_model = Str("STANDARD_4PCT") THEN Rat(4, 100) ELSE RZero

\* calculate_multi_year_projection: the escalation rate of the named model
EscalationRate(escalation_model) ==
    IF escalation_model = Str("STANDARD_4PCT") THEN Rat(4, 100)
    ELSE IF escalation_model = Str("NONE") THEN RZero
    ELSE Rat(4, 100)

\* x ** e for a natural exponent
RECURSIVE RPow(_, _)
RPow(x, e) == IF e = 0 THEN RInt(1) ELSE RMul(x, RPow(x, e - 1))

EscalationFactor(year, escalation_rate) ==
    IF year = 1 THEN RInt(1) ELSE RPow(RAdd(RInt(1), escalation_rate), year - 1)

\* Setup billed again in every year
YearSetupEveryYear(year, setup_after) == setup_after

\* calculate_multi_year_projection: "Setup only in Year 1"
YearSetup(year, setup_after) == IF year = 1 THEN setup_after ELSE RZero

YearEntry(year, year_monthly, year_annual_saas, year_setup) ==
    [year |-> year,
     saas_monthly |-> year_monthly,
     saas_annual |-> year_annual_saas,
     setup |-> year_setup,
     travel |-> RZero,
     total |-> RAdd(year_annual_saas, year_setup)]

\* One turn of the loop over the years; year1_pct is the parsed year-1
\* percentage, read only in year 1 under a truthy discount_config.  The
\* quotients of Decimal are taken exactly.
ProjectionYear(year, base_monthly, escalation_rate, discount_config, year1_pct, setup_after) ==
    IF year = 1 /\ Truthy(discount_config) THEN
        IF ~year1_pct.ok THEN year1_pct
        ELSE Ok(YearEntry(year,
                          RDiv(LessPercent(RMul(base_monthly, RInt(12)), year1_pct.v),
                               RInt(12)),
                          LessPercent(RMul(base_monthly, RInt(12)), year1_pct.v),
                          YearSetup(year, setup_after)))
    ELSE Ok(YearEntry(year,
                      RMul(base_monthly, EscalationFactor(year, escalation_rate)),
                      RMul(RMul(base_monthly, EscalationFactor(year, escalation_rate)),
                           RInt(12)),
                      YearSetup(year, setup_after)))

\* The loop "for year in range(1, projection_years + 1)", from year on
RECURSIVE ProjectionYears(_, _, _, _, _, _)
ProjectionYears(year, projection_years, base_monthly, escalation_rate, discount_config, setup_after) ==
    IF year > projection_years THEN Ok(<<>>)
    ELSE Extended(ProjectionYear(year, base_monthly, escalation_rate, discount_config,
                                 ToDecimal(Get(IF Truthy(discount_config)
                                               THEN discount_config ELSE EmptyDict,
                                               "saas_year1_pct", Int_(0))),
                                 setup_after),
                  ProjectionYears(year + 1, projection_years, base_monthly,
                                  escalation_rate, discount_config, setup_after))

\* sum(y[field] for y in years)
RECURSIVE SumYears(_, _, _)
SumYears(years, field, i) ==
    IF i > Len(years) THEN RZero ELSE RAdd(years[i][field], SumYears(years, field, i + 1))

\* The mean taken over one year more than the horizon
LevelAnnualOverMore(total_saas, projection_years) ==
    RDiv(total_saas, RInt(projection_years + 1))

\* level_annual = total_saas / projection_years
LevelAnnual(total_saas, projection_years) == RDiv(total_saas, RInt(projection_years))

\* "Level loading - spread total SaaS evenly if enabled"
LevelLoaded(years, level_annual) ==
    [i \in 1..Len(years) |->
        [year |-> years[i].year,
         saas_monthly |-> years[i].saas_monthly,
         saas_annual |-> years[i].saas_annual,
         setup |-> years[i].setup,
         travel |-> years[i].travel,
         total |-> years[i].total,
         saas_annual_level_loaded |-> level_annual,
         saas_monthly_level_loaded |-> RDiv(level_annual, RInt(12))]]

ProjectionResult(years, projection_years, escalation_model, level_loading_enabled, teller_payments_enabled) ==
    IF ~years.ok THEN years
    ELSE Ok([years |-> IF level_loading_enabled /\ projection_years > 1
                       THEN LevelLoaded(years.v,
                                        LevelAnnual(SumYears(years.v, "saas_annual", 1),
                                                    projection_years))
                       ELSE years.v,
             total_contract_value |-> SumYears(years.v, "total", 1),
             escalation_model |-> escalation_model,
             level_loading_enabled |-> level_loading_enabled,
             teller_payments_discount_applied |-> teller_payments_enabled])

\* calculate_multi_year_projection once apply_discounts has answered
ProjectionOf(discount_result, projection_years, escalation_model, level_loading_enabled, teller_payments_enabled, discount_config) ==
    IF ~discount_result.ok THEN discount_result
    ELSE ProjectionResult(
            ProjectionYears(1, projection_years,
                            IF teller_payments_enabled
                            THEN RMul(discount_result.v.saas_monthly_after, Rat(90, 100))
                            ELSE discount_result.v.saas_monthly_after,
                            EscalationRate(escalation_model), discount_config,
                            discount_result.v.setup_after),
            projection_years, escalation_model, level_loading_enabled,
            teller_payments_enabled)

calculate_multi_year_projection(saas_monthly, setup_total, projection_years, escalation_model, level_loading_enabled, teller_payments_enabled, discount_config) ==
    ProjectionOf(apply_discounts(saas_monthly, setup_total, discount_config),
                 projection_years, escalation_model, level_loading_enabled,
                 teller_payments_enabled, discount_config)

\* Nights counted as the days on site
NightsOnSite(days) == days

\* calculate_travel_cost: "nights = days + 1  # Arrive evening before"
Nights(days) == days + 1

\* An int operand of the trip arithmetic; anything else fails in days + 1 or
\* in the product of a Decimal rate with it
TripCount(j) ==
    IF j.k = "num" /\ j.d = 1 THEN Ok(j.n)
    ELSE IF j.k = "bool" THEN Ok(IF j.b THEN 1 ELSE 0)
    ELSE Raise("TypeError")

TripEntry(zone, days, people, nights) ==
    [days |-> days,
     nights |-> nights,
     people |-> people,
     airfare_cost |-> RMul(zone.AirfareEstimate, RInt(people)),
     hotel_cost |-> RMul(RMul(zone.HotelRate, RInt(people)), RInt(nights)),
     per_diem_cost |-> RMul(RMul(zone.PerDiemRate, RInt(people)), RInt(nights)),
     vehicle_cost |-> RMul(zone.VehicleRate, RInt(nights)),
     trip_total |->
        RAdd(RAdd(RAdd(RMul(zone.AirfareEstimate, RInt(people)),
                       RMul(RMul(zone.HotelRate, RInt(people)), RInt(nights))),
                  RMul(RMul(zone.PerDiemRate, RInt(people)), RInt(nights))),
             RMul(zone.VehicleRate, RInt(nights)))]

\* One turn of the loop over the trips
TripDetail(zone, trip) ==
    IF trip.k # "dict" THEN Raise("AttributeError")
    ELSE IF ~TripCount(Get(trip, "days", Int_(1))).ok THEN Raise("TypeError")
    ELSE IF ~TripCount(Get(trip, "people", Int_(1))).ok THEN Raise("TypeError")
    ELSE Ok(TripEntry(zone,
                      TripCount(Get(trip, "days", Int_(1))).v,
                      TripCount(Get(trip, "people", Int_(1))).v,
                      Nights(TripCount(Get(trip, "days", Int_(1))).v)))

\* The loop "for trip in trips", from trip i on
RECURSIVE TripDetails(_, _, _)
TripDetails(zone, trips, i) ==
    IF i > Len(trips) THEN Ok(<<>>)
    ELSE Extended(TripDetail(zone, trips[i]), TripDetails(zone, trips, i + 1))

RECURSIVE SumTrips(_, _)
SumTrips(trip_details, i) ==
    IF i > Len(trip_details) THEN RZero
    ELSE RAdd(trip_details[i].trip_total, SumTrips(trip_details, i + 1))

NoTravel == [zone_name |-> Null, trips |-> <<>>, total_travel_cost |-> RZero]

TravelResult(zone, trip_details) ==
    IF ~trip_details.ok THEN trip_details
    ELSE Ok([zone_name |-> Str(zone.Name),
             trips |-> trip_details.v,
             total_travel_cost |-> SumTrips(trip_details.v, 1)])

\* query(TravelZone).filter(TravelZone.Id == travel_zone_id).first()
ZoneRows(store, travel_zone_id) ==
    SelectSeq(store.zones, LAMBDA z : Str(z.Id) = travel_zone_id)

\* calculate_travel_cost once the zone is found
TravelOf(zone, trips) ==
    IF ~trips.ok THEN trips ELSE TravelResult(zone, TripDetails(zone, trips.v, 1))

calculate_travel_cost(store, travel_zone_id, trips) ==
    IF ~Truthy(travel_zone_id) \/ ~Truthy(trips) THEN Ok(NoTravel)
    ELSE IF ZoneRows(store, travel_zone_id) = <<>> THEN Ok(NoTravel)
    ELSE TravelOf(ZoneRows(store, travel_zone_id)[1], Iterate(trips))

(***************************************************************************)
(* Inputs of the QuoteCalculationService: stored rules, parameters,        *)
(* discount configurations.                                                *)
(***************************************************************************)
Component(parameter, weight) ==
    Dict(("parameter" :> Str(parameter)) @@ ("weight" :> weight))

ScoreTier(code, name, lo, hi, base_price) ==
    Dict(("code" :> Str(code)) @@ ("name" :> Str(name)) @@ ("min_score" :> lo)
         @@ ("max_score" :> hi) @@ ("base_price" :> base_price))

\* The COMPLEXITY_FACTOR rule of the seed data
SeedFormula ==
    Dict(("type" :> Str("weighted_sum")) @@
         ("components" :> List(<<Component("departments", Int_(1)),
                                 Component("revenue_templates", Num(Rat(1, 4))),
                                 Component("payment_imports", Int_(1))>>)))

SeedTiers ==
    List(<<ScoreTier("BASIC", "Basic", Int_(0), Int_(10), Int_(64400)),
           ScoreTier("MEDIUM", "Medium", Int_(11), Int_(20), Int_(98440)),
           ScoreTier("LARGE", "Large", Int_(21), Null, Int_(176640))>>)

SeedAdditionalItems ==
    Dict(("source_parameter" :> Str("departments")) @@ ("first_included" :> Int_(1))
         @@ ("price_per_item" :> Int_(4140)))

RuleConfig(formula, tiers, additional_items) ==
    Dict(("formula" :> formula) @@ ("tiers" :> tiers)
         @@ ("additional_items" :> additional_items))

SeedRule == RuleConfig(SeedFormula, SeedTiers, SeedAdditionalItems)

ExpressionFormula(text) ==
    Dict(("type" :> Str("expression")) @@ ("expression" :> Str(text)))

ScoreFormulas ==
    { SeedFormula,
      Dict(("type" :> Str("weighted_sum")) @@
           ("components" :> List(<<Component("departments", Str("abc"))>>))),
      Dict(("type" :> Str("weighted_sum")) @@
           ("components" :> List(<<Component("departments", Str("2.5")),
                                   Dict("parameter" :> Str("payment_imports"))>>))),
      Dict("components" :> List(<<Component("departments", Int_(1)), Str("abc")>>)),
      ExpressionFormula("{departments}*2"),
      ExpressionFormula("{departments}%2"),
      ExpressionFormula("(1)(2)"),
      ExpressionFormula("1/0"),
      ExpressionFormula("2+"),
      Dict(("type" :> Str("lookup")) @@ ("parameter" :> Str("departments"))),
      Dict("type" :> Str("bogus")) }

RuleConfigs ==
    {RuleConfig(f, SeedTiers, SeedAdditionalItems) : f \in ScoreFormulas}
    \cup
    { Dict(("tiers" :> SeedTiers) @@ ("additional_items" :> SeedAdditionalItems)),
      Dict(("formula" :> SeedFormula) @@ ("tiers" :> SeedTiers)),
      Dict("formula" :> SeedFormula),
      RuleConfig(SeedFormula, List(<<>>), SeedAdditionalItems),
      RuleConfig(SeedFormula,
                 List(<<ScoreTier("BASIC", "Basic", Str("abc"), Int_(10), Int_(64400))>>),
                 SeedAdditionalItems),
      RuleConfig(SeedFormula,
                 List(<<ScoreTier("BASIC", "Basic", Null, Int_(10), Str("abc")),
                        ScoreTier("LARGE", "Large", Int_(11), Str("abc"), Int_(176640))>>),
                 SeedAdditionalItems),
      RuleConfig(SeedFormula, SeedTiers,
                 Dict(("source_parameter" :> Str("payment_imports"))
                      @@ ("first_included" :> Int_(2)) @@ ("price_per_item" :> Str("abc")))),
      RuleConfig(SeedFormula, SeedTiers,
                 Dict(("source_parameter" :> Str("payment_imports"))
                      @@ ("first_included" :> Str("abc")) @@ ("price_per_item" :> Int_(100)))),
      RuleConfig(SeedFormula, SeedTiers,
                 Dict(("source_parameter" :> Str("payment_imports"))
                      @@ ("first_included" :> Int_(2)) @@ ("price_per_item" :> Num(Rat(5, 2))))),
      RuleConfig(SeedFormula, SeedTiers,
                 Dict(("first_included" :> Num(Rat(5, 2))) @@ ("price_per_item" :> Int_(100)))),
      EmptyDict }

Row(version, rule_code, is_active, configuration) ==
    [PricingVersionId |-> version, RuleCode |-> rule_code, IsActive |-> is_active,
     Configuration |-> configuration]

CurrentAndOld == (1 :> [IsCurrent |-> TRUE]) @@ (2 :> [IsCurrent |-> FALSE])
NoCurrent == (1 :> [IsCurrent |-> FALSE]) @@ (2 :> [IsCurrent |-> FALSE])

Store(versions, rules) == [versions |-> versions, rules |-> rules]

\* Stores: at most one active row for a version and a rule code
CalcDbs ==
    {Store(CurrentAndOld, {Row(1, "COMPLEXITY_FACTOR", TRUE, c)}) : c \in RuleConfigs}
    \cup
    { Store(CurrentAndOld, {}),
      Store(CurrentAndOld, {Row(1, "COMPLEXITY_FACTOR", FALSE, SeedRule)}),
      Store(CurrentAndOld, {Row(2, "COMPLEXITY_FACTOR", TRUE, SeedRule)}),
      Store(CurrentAndOld, {Row(1, "ESCALATION", TRUE, SeedRule),
                            Row(1, "COMPLEXITY_FACTOR", FALSE, SeedRule),
                            Row(2, "COMPLEXITY_FACTOR", TRUE, SeedRule)}),
      Store(NoCurrent, {Row(1, "COMPLEXITY_FACTOR", TRUE, SeedRule)}) }

Parameters(departments, revenue_templates, payment_imports) ==
    Dict(("departments" :> departments) @@ ("revenue_templates" :> revenue_templates)
         @@ ("payment_imports" :> payment_imports))

ParameterSets ==
    {Parameters(Int_(d), Int_(r), Int_(p)) :
        d \in {0, 1, 7, 10, 11, 20, 21, 100}, r \in {0, 1, 2, 15}, p \in {0, 4}}
    \cup
    { EmptyDict,
      Dict("departments" :> Int_(12)),
      Parameters(Str("abc"), Int_(0), Int_(0)) }

Amounts == {RZero, RInt(1000), Rat(5901, 2), RInt(50000)}

DiscountConfigs ==
    { Null, EmptyDict,
      Dict("saas_year1_pct" :> Int_(10)),
      Dict(("saas_year1_pct" :> Int_(10)) @@ ("saas_all_years_pct" :> Int_(5))),
      Dict(("setup_fixed" :> Int_(500)) @@ ("setup_pct" :> Int_(10))),
      Dict("setup_fixed" :> Int_(2000)),
      Dict(("saas_year1_pct" :> Num(Rat(25, 2))) @@ ("saas_all_years_pct" :> Int_(5))
           @@ ("setup_fixed" :> Int_(500)) @@ ("setup_pct" :> Int_(20))),
      Dict(("setup_fixed" :> Int_(1000)) @@ ("setup_pct" :> Int_(100))),
      Dict(("saas_year1_pct" :> Str("10")) @@ ("setup_pct" :> Int_(150))),
      Dict("saas_year1_pct" :> Str("abc")),
      Dict("setup_fixed" :> Null),
      Dict("setup_pct" :> Str("abc")) }

(***************************************************************************)
(* The QuoteCalculationService as a state machine: each request is served  *)
(* by a fresh service instance over the stored rules.                      *)
(***************************************************************************)
\* Amounts that 4% a year escalates into short decimals
MonthlyRates == {RZero, RInt(31250), RInt(62500)}
SetupTotals == {RInt(1000), RInt(50000)}
MaxYears == 3
EscalationModels == {Str("STANDARD_4PCT"), Str("NONE"), Str("CUSTOM_5PCT")}

ProjectionRequests ==
    {[op |-> "calculate_multi_year_projection", saas_monthly |-> m, setup_total |-> t,
      projection_years |-> n, escalation_model |-> e, level_loading_enabled |-> l,
      teller_payments_enabled |-> tp, discount_config |-> c] :
        m \in MonthlyRates, t \in SetupTotals, n \in 0..MaxYears,
        e \in EscalationModels, l \in BOOLEAN, tp \in BOOLEAN, c \in DiscountConfigs}

CalcRequests ==
    {[op |-> "calculate_complexity_factor", parameters |-> ps] : ps \in ParameterSets}
    \cup {[op |-> "apply_discounts", saas_monthly |-> m, setup_total |-> t,
           discount_config |-> c] :
            m \in Amounts, t \in Amounts, c \in DiscountConfigs}
    \cup ProjectionRequests

InitCalc ==
    /\ db \in CalcDbs
    /\ call \in CalcRequests
    \* only calculate_complexity_factor reads the stored rules: one store is
    \* enough for the other operations
    /\ call.op # "calculate_complexity_factor" =>
            db = Store(CurrentAndOld, {Row(1, "COMPLEXITY_FACTOR", TRUE, SeedRule)})
    /\ ret = Pending
    /\ evald = {}
    /\ svc = NoServices

CalculateComplexityFactor ==
    /\ call.op = "calculate_complexity_factor"
    /\ ret = Pending
    /\ ret' = calculate_complexity_factor(db, call.parameters)
    /\ evald' = ComplexityEvalInputs(_get_rule(db, "COMPLEXITY_FACTOR"), call.parameters)
    /\ UNCHANGED <<call, db, svc>>

ApplyDiscounts ==
    /\ call.op = "apply_discounts"
    /\ ret = Pending
    /\ ret' = apply_discounts(call.saas_monthly, call.setup_total, call.discount_config)
    /\ UNCHANGED <<call, evald, db, svc>>

CalculateMultiYearProjection ==
    /\ call.op = "calculate_multi_year_projection"
    /\ ret = Pending
    /\ ret' = calculate_multi_year_projection(
                    call.saas_monthly, call.setup_total, call.projection_years,
                    call.escalation_model, call.level_loading_enabled,
                    call.teller_payments_enabled, call.discount_config)
    /\ UNCHANGED <<call, evald, db, svc>>

NextCalc == CalculateComplexityFactor \/ ApplyDiscounts \/ CalculateMultiYearProjection

SpecCalc == InitCalc /\ [][NextCalc]_vars

(***************************************************************************)
(* Travel costs: the stored travel zones and the requests for              *)
(* calculate_travel_cost.                                                  *)
(***************************************************************************)
ZoneRow(id, name, airfare, hotel, per_diem, vehicle) ==
    [Id |-> id, Name |-> name, AirfareEstimate |-> airfare, HotelRate |-> hotel,
     PerDiemRate |-> per_diem, VehicleRate |-> vehicle]

\* TravelZone.PricingVersionId and TravelZone.IsActive of a row
ZoneOf(version, active, row) ==
    row @@ [PricingVersionId |-> version, IsActive |-> active]

\* The zones of the current version, a zone of the version before it and a
\* zone that is no longer offered
SeedZones ==
    << ZoneOf(1, TRUE, ZoneRow("zone-0", "Denver Metro Colorado", RZero, RInt(180), RInt(60), RInt(125))),
       ZoneOf(1, TRUE, ZoneRow("zone-1", "Western US", RInt(750), RInt(180), RInt(60), RInt(125))),
       ZoneOf(1, TRUE, ZoneRow("zone-x", "Remote", Rat(1999, 2), Rat(3601, 20), RInt(60), RZero)),
       ZoneOf(2, TRUE, ZoneRow("zone-old", "Western US 2023", RInt(700), RInt(170), RInt(55), RInt(120))),
       ZoneOf(1, FALSE, ZoneRow("zone-off", "Alaska", RInt(900), RInt(200), RInt(60), RInt(125))) >>

TravelDbs ==
    {[zones |-> SeedZones, versions |-> CurrentAndOld],
     [zones |-> <<>>, versions |-> CurrentAndOld]}

Trip(days, people) == Dict(("days" :> days) @@ ("people" :> people))

Trips ==
    {Trip(Int_(d), Int_(p)) : d \in {1, 2}, p \in {1, 2}}
    \cup {EmptyDict, Trip(Str("abc"), Int_(1)), Trip(Int_(2), Num(Rat(3, 2)))}

MaxTrips == 2

TripLists ==
    {Null, Int_(5)}
    \cup {List(ts) : ts \in UNION {[1..n -> Trips] : n \in 0..MaxTrips}}

TravelRequests ==
    {[op |-> "calculate_travel_cost", travel_zone_id |-> z, trips |-> ts] :
        z \in {Null, Str(""), Str("zone-0"), Str("zone-1"), Str("zone-x"), Str("zone-9"),
               Str("zone-old"), Str("zone-off")},
        ts \in TripLists}

InitTravel ==
    /\ db \in TravelDbs
    /\ call \in TravelRequests
    /\ ret = Pending
    /\ evald = {}
    /\ svc = NoServices

CalculateTravelCost ==
    /\ call.op = "calculate_travel_cost"
    /\ ret = Pending
    /\ ret' = calculate_travel_cost(db, call.travel_zone_id, call.trips)
    /\ UNCHANGED <<call, evald, db, svc>>

NextTravel == CalculateTravelCost

SpecTravel == InitTravel /\ [][NextTravel]_vars

(***************************************************************************)
(* Properties of the QuoteCalculationService.                              *)
(***************************************************************************)
\* The rule a request for rule_code resolves to, read off the stored rows
CurrentVersions == {v \in DOMAIN db.versions : db.versions[v].IsCurrent}

ActiveRows(rule_code) ==
    {r \in db.rules : /\ r.PricingVersionId \in CurrentVersions
                      /\ r.RuleCode = rule_code
                      /\ r.IsActive}

ResolvesTo(configuration) ==
    /\ CurrentVersions # {}
    /\ ActiveRows("COMPLEXITY_FACTOR") # {}
    /\ \A r \in ActiveRows("COMPLEXITY_FACTOR") : r.Configuration = configuration

ComplexityReturned == Returned /\ call.op = "calculate_complexity_factor"

\* The tiers next to a score on the scale BASIC [0,10], MEDIUM [11,20],
\* LARGE [21, unbounded)
AdjacentTiers(score) ==
    IF RLe(score, RInt(10)) THEN {"BASIC"}
    ELSE IF RLt(score, RInt(11)) THEN {"BASIC", "MEDIUM"}
    ELSE IF RLe(score, RInt(20)) THEN {"MEDIUM"}
    ELSE IF RLt(score, RInt(21)) THEN {"MEDIUM", "LARGE"}
    ELSE {"LARGE"}

\* C1: under the rule with tiers BASIC [0,10], MEDIUM [11,20], LARGE [21, ..),
\* every score the weighted sum produces, non-integer ones included, is given
\* a tier adjacent to it, never one further away.
C1_TierAdjacent ==
    (ComplexityReturned /\ ResolvesTo(SeedRule) /\ ret.ok)
    => ret.v.tier.s \in AdjacentTiers(ret.v.complexity_score)

\* C2: with a resolvable pricing version, a calculation never raises, whatever
\* the stored rule configuration, the parameters and the discount
\* configuration.
C2_NeverRaises ==
    (Returned /\ call.op \in {"calculate_complexity_factor", "apply_discounts"}
     /\ CurrentVersions # {})
    => ret.ok

\* C5: the discount of key in the configuration, 0 when absent
DiscountOf(key) ==
    ToDecimal(Get(IF Truthy(call.discount_config) THEN call.discount_config ELSE EmptyDict,
                  key, Int_(0)))

NumericDiscounts ==
    /\ call.op = "apply_discounts"
    /\ call.discount_config.k \in {"null", "dict"}
    /\ \A key \in {"saas_year1_pct", "saas_all_years_pct", "setup_fixed", "setup_pct"} :
            DiscountOf(key).ok

OneMinus(pct) == RSub(RInt(1), RDiv(pct, RInt(100)))

\* C5: apply_discounts stacks the discounts in a fixed order: the all-years
\* percentage on the monthly rate, then the year-1 percentage on the annual
\* figure; for setup the fixed amount first (when it does not exceed the
\* total), then the percentage; the year-1 total is the sum of both amounts.
C5_DiscountStacking ==
    (Returned /\ NumericDiscounts)
    => LET m == call.saas_monthly
           t == call.setup_total
           after == RMul(m, OneMinus(DiscountOf("saas_all_years_pct").v))
           year1 == RMul(RMul(after, RInt(12)), OneMinus(DiscountOf("saas_year1_pct").v))
       IN  /\ ret.ok
           /\ ret.v.saas_monthly_after = after
           /\ ret.v.saas_year1_discount_amount = RSub(RMul(m, RInt(12)), year1)
           /\ RLe(DiscountOf("setup_fixed").v, t)
                => ret.v.setup_after =
                        RMul(RSub(t, DiscountOf("setup_fixed").v),
                             OneMinus(DiscountOf("setup_pct").v))
           /\ ret.v.setup_discount_amount = RSub(t, ret.v.setup_after)
           /\ ret.v.total_discount_year1 =
                RAdd(ret.v.saas_year1_discount_amount, ret.v.setup_discount_amount)

\* All four discounts at work on non-zero amounts
C5_Witness ==
    /\ Returned /\ NumericDiscounts /\ ret.ok
    /\ RLt(RZero, DiscountOf("saas_year1_pct").v)
    /\ RLt(RZero, DiscountOf("saas_all_years_pct").v)
    /\ RLt(RZero, DiscountOf("setup_fixed").v)
    /\ RLt(RZero, DiscountOf("setup_pct").v)
    /\ RLt(DiscountOf("setup_fixed").v, call.setup_total)
    /\ RLt(RZero, call.saas_monthly)
    /\ RLt(RZero, ret.v.setup_after)
    /\ RLt(ret.v.setup_after, call.setup_total)

\* C6: what makes a stored rule and the parameters of a request well formed
WeightsOf(rule) ==
    Get(Get(rule, "formula", EmptyDict), "components", List(<<>>))

WellFormedScore(rule, parameters) ==
    /\ Get(rule, "formula", EmptyDict).k = "dict"
    /\ PyEq(Get(Get(rule, "formula", EmptyDict), "type", Str("weighted_sum")),
            Str("weighted_sum"))
    /\ WeightsOf(rule).k = "list"
    /\ \A i \in 1..Len(WeightsOf(rule).items) :
        LET component == WeightsOf(rule).items[i]
        IN  /\ component.k = "dict"
            /\ ToDecimal(Get(component, "weight", Int_(1))).ok
            /\ Get(component, "parameter", Str("")).k = "str"
            /\ ToDecimal(Get(parameters, Get(component, "parameter", Str("")).s,
                             Int_(0))).ok

WellFormedTiers(rule) ==
    /\ Get(rule, "tiers", List(<<>>)).k = "list"
    /\ Get(rule, "tiers", List(<<>>)).items # <<>>
    /\ \A i \in 1..Len(rule.m["tiers"].items) :
        LET t == rule.m["tiers"].items[i]
        IN  /\ t.k = "dict" /\ t # EmptyDict
            /\ Get(t, "min_score", Int_(0)).k \in {"num", "null"}
            /\ Get(t, "max_score", Null).k \in {"num", "null"}
            /\ ToDecimal(Get(t, "base_price", Int_(0))).ok

WellFormedAdditional(rule, parameters) ==
    LET a == Get(rule, "additional_items", EmptyDict)
    IN  /\ a.k = "dict"
        /\ a # EmptyDict =>
            /\ ToDecimal(Get(a, "price_per_item", Int_(0))).ok
            /\ Get(a, "first_included", Int_(1)).k = "num"
            /\ Get(a, "first_included", Int_(1)).d = 1
            /\ Get(a, "source_parameter", Str("departments")).k = "str"
            /\ Get(parameters, Get(a, "source_parameter", Str("departments")).s,
                   Int_(0)).k = "num"

\* The sum over the components from i of weight * parameter value, a parameter
\* not supplied counting as 0
RECURSIVE ScoreSum(_, _, _)
ScoreSum(components, i, parameters) ==
    IF i > Len(components) THEN RZero
    ELSE RAdd(RMul(ToDecimal(Get(components[i], "weight", Int_(1))).v,
                   ToDecimal(Get(parameters, components[i].m["parameter"].s, Int_(0))).v),
              ScoreSum(components, i + 1, parameters))

\* price_per_item * max(0, source_parameter - first_included)
Overage(rule, parameters) ==
    LET a == Get(rule, "additional_items", EmptyDict)
        source == NumOf(Get(parameters, Get(a, "source_parameter", Str("departments")).s,
                            Int_(0)))
        over == RSub(source, NumOf(Get(a, "first_included", Int_(1))))
    IN  IF a = EmptyDict THEN RZero
        ELSE RMul(ToDecimal(Get(a, "price_per_item", Int_(0))).v,
                  IF RLe(over, RZero) THEN RZero ELSE over)

BasePriceOf(rule, code) ==
    {ToDecimal(Get(rule.m["tiers"].items[i], "base_price", Int_(0))).v :
        i \in {j \in 1..Len(rule.m["tiers"].items) :
                    Get(rule.m["tiers"].items[j], "code", Str("UNKNOWN")) = code}}

WellFormedRequest(rule) ==
    /\ ComplexityReturned
    /\ ResolvesTo(rule)
    /\ rule.k = "dict" /\ rule # EmptyDict
    /\ WellFormedScore(rule, call.parameters)
    /\ WellFormedTiers(rule)
    /\ WellFormedAdditional(rule, call.parameters)

\* C6: with a configured COMPLEXITY_FACTOR rule the complexity score is the sum
\* over the components of weight * parameter value (0 for a parameter not
\* supplied) and total_org_setup_price is the base price of the matched tier
\* plus price_per_item * max(0, source_parameter - first_included); 7
\* departments, 15 revenue templates and 4 payment imports give 14.75, MEDIUM,
\* an overage of 24840 and a total of 123280.
C6_ScoreAndTotal ==
    /\ \A rule \in RuleConfigs :
        WellFormedRequest(rule)
        => /\ ret.ok
           /\ ret.v.complexity_score = ScoreSum(WeightsOf(rule).items, 1, call.parameters)
           /\ ret.v.base_price \in BasePriceOf(rule, ret.v.tier)
           /\ ret.v.additional_dept_price = Overage(rule, call.parameters)
           /\ ret.v.total_org_setup_price =
                RAdd(ret.v.base_price, Overage(rule, call.parameters))
    /\ (ComplexityReturned /\ ResolvesTo(SeedRule)
        /\ call.parameters = Parameters(Int_(7), Int_(15), Int_(4)))
        => /\ ret.ok
           /\ ret.v.complexity_score = Rat(59, 4)
           /\ ret.v.tier = Str("MEDIUM")
           /\ ret.v.additional_dept_price = RInt(24840)
           /\ ret.v.total_org_setup_price = RInt(123280)

\* The example of the requirements: 7 departments, 15 templates, 4 imports
C6_Witness ==
    /\ WellFormedRequest(SeedRule)
    /\ call.parameters = Parameters(Int_(7), Int_(15), Int_(4))
    /\ ret.ok
    /\ ret.v.total_org_setup_price = RInt(123280)

\* C7: when the COMPLEXITY_FACTOR rule is missing or inactive for the resolved
\* pricing version, calculate_complexity_factor does not raise and returns
\* score 0, tier "UNKNOWN", base, additional and total prices 0 and a non-empty
\* error.
C7_MissingRuleDefaults ==
    (ComplexityReturned /\ CurrentVersions # {} /\ ActiveRows("COMPLEXITY_FACTOR") = {})
    => /\ ret.ok
       /\ ret.v.complexity_score = RZero
       /\ ret.v.tier = Str("UNKNOWN")
       /\ ret.v.base_price = RZero
       /\ ret.v.additional_dept_price = RZero
       /\ ret.v.total_org_setup_price = RZero
       /\ ret.v.error.k = "str" /\ ret.v.error.s # ""

\* An inactive rule of the current version is stored and the call has returned
C7_Witness ==
    /\ ComplexityReturned
    /\ \E r \in db.rules : /\ r.PricingVersionId \in CurrentVersions
                           /\ r.RuleCode = "COMPLEXITY_FACTOR"
                           /\ ~r.IsActive
    /\ ActiveRows("COMPLEXITY_FACTOR") = {}
    /\ ret.ok /\ ret.v.tier = Str("UNKNOWN")

ProjectionReturned ==
    Returned /\ call.op = "calculate_multi_year_projection" /\ ret.ok

\* base_monthly: the monthly rate after the all-years discount and the
\* Teller Payments discount
BaseMonthly ==
    LET after == RMul(call.saas_monthly, OneMinus(DiscountOf("saas_all_years_pct").v))
    IN  IF call.teller_payments_enabled THEN RMul(after, Rat(9, 10)) ELSE after

NamedRate ==
    CASE call.escalation_model = Str("STANDARD_4PCT") -> Rat(4, 100)
      [] call.escalation_model = Str("NONE") -> RZero
      [] OTHER -> Rat(4, 100)

\* (1 + rate)^(n - 1) as a product of n - 1 factors
RECURSIVE Compounded(_, _)
Compounded(rate, n) ==
    IF n <= 1 THEN RInt(1) ELSE RMul(RAdd(RInt(1), rate), Compounded(rate, n - 1))

Year1Discounted(n) == n = 1 /\ Truthy(call.discount_config)

\* C14: the monthly SaaS rate of year n, before the year-1-only discount, is
\* base_monthly * (1 + rate)^(n - 1), rate being 4% for STANDARD_4PCT, 0% for
\* NONE and 4% for any other model name; year 1 is not escalated, and under
\* NONE every year has the same monthly rate.
C14_CompoundEscalation ==
    ProjectionReturned =>
        /\ Len(ret.v.years) = call.projection_years
        /\ \A n \in 1..Len(ret.v.years) :
            /\ ret.v.years[n].year = n
            /\ ret.v.years[n].saas_monthly =
                    IF Year1Discounted(n)
                    THEN RMul(BaseMonthly, OneMinus(DiscountOf("saas_year1_pct").v))
                    ELSE RMul(BaseMonthly, Compounded(NamedRate, n))
            /\ (call.escalation_model = Str("NONE") /\ ~Year1Discounted(n)) =>
                    ret.v.years[n].saas_monthly = BaseMonthly

\* a third year under a model name that is not recognized
C14_Witness ==
    /\ ProjectionReturned
    /\ call.escalation_model \notin {Str("STANDARD_4PCT"), Str("NONE")}
    /\ Len(ret.v.years) = 3
    /\ RLt(RZero, BaseMonthly)
    /\ ret.v.years[3].saas_monthly = RMul(BaseMonthly, Rat(676, 625))

\* The setup total after the fixed and the percentage discount
SetupAfterDiscounts ==
    RMul(RMax(RZero, RSub(call.setup_total, DiscountOf("setup_fixed").v)),
         OneMinus(DiscountOf("setup_pct").v))

\* total of year 1 + ... + total of year n
RECURSIVE TotalsUpTo(_, _)
TotalsUpTo(years, n) ==
    IF n = 0 THEN RZero ELSE RAdd(TotalsUpTo(years, n - 1), years[n].total)

\* C15: setup is billed in year 1 only: the setup amount of year 1 is the
\* setup total after discounts and that of every later year is 0; the total
\* of each year is saas_annual + setup, and total_contract_value is the sum
\* of the totals of the years.
C15_SetupInYearOneOnly ==
    ProjectionReturned =>
        /\ \A n \in 1..Len(ret.v.years) :
            /\ ret.v.years[n].setup = IF n = 1 THEN SetupAfterDiscounts ELSE RZero
            /\ ret.v.years[n].total =
                    RAdd(ret.v.years[n].saas_annual, ret.v.years[n].setup)
        /\ ret.v.total_contract_value = TotalsUpTo(ret.v.years, Len(ret.v.years))

\* a projection over several years whose setup total is not discounted away
C15_Witness ==
    /\ ProjectionReturned
    /\ Len(ret.v.years) >= 2
    /\ RLt(RZero, ret.v.years[1].setup)
    /\ RLt(ret.v.years[1].setup, call.setup_total)
    /\ ret.v.years[2].setup = RZero

\* The same projection asked for without level loading
WithoutLevelLoading ==
    calculate_multi_year_projection(
        call.saas_monthly, call.setup_total, call.projection_years, call.escalation_model,
        FALSE, call.teller_payments_enabled, call.discount_config).v

LevelLoadedFields == {"saas_annual_level_loaded", "saas_monthly_level_loaded"}
EscalatedFields == {"year", "saas_monthly", "saas_annual", "setup", "travel", "total"}

\* saas_annual of year 1 + ... + saas_annual of year n
RECURSIVE AnnualsUpTo(_, _)
AnnualsUpTo(years, n) ==
    IF n = 0 THEN RZero ELSE RAdd(AnnualsUpTo(years, n - 1), years[n].saas_annual)

\* C16: with level loading requested over more than one year, every year
\* carries saas_annual_level_loaded = (sum of saas_annual over the years) /
\* projection_years and saas_monthly_level_loaded = that / 12, while the
\* escalated fields of the years and total_contract_value are those of the
\* same projection without level loading; with level loading not requested
\* or a single year, no year carries a level-loaded field.
C16_LevelLoading ==
    ProjectionReturned =>
        /\ Len(ret.v.years) = Len(WithoutLevelLoading.years)
        /\ ret.v.total_contract_value = WithoutLevelLoading.total_contract_value
        /\ \A n \in 1..Len(ret.v.years) :
            /\ \A f \in EscalatedFields :
                    ret.v.years[n][f] = WithoutLevelLoading.years[n][f]
            /\ IF call.level_loading_enabled /\ call.projection_years > 1
               THEN /\ ret.v.years[n].saas_annual_level_loaded =
                            RDiv(AnnualsUpTo(ret.v.years, Len(ret.v.years)),
                                 RInt(call.projection_years))
                    /\ ret.v.years[n].saas_monthly_level_loaded =
                            RDiv(ret.v.years[n].saas_annual_level_loaded, RInt(12))
               ELSE DOMAIN ret.v.years[n] \cap LevelLoadedFields = {}

\* three escalating years spread into one level figure
C16_Witness ==
    /\ ProjectionReturned
    /\ call.level_loading_enabled
    /\ Len(ret.v.years) = 3
    /\ RLt(ret.v.years[1].saas_annual, ret.v.years[2].saas_annual)
    /\ RLt(ret.v.years[1].saas_annual, ret.v.years[1].saas_annual_level_loaded)
    /\ RLt(ret.v.years[3].saas_annual_level_loaded, ret.v.years[3].saas_annual)

TravelReturned == Returned /\ call.op = "calculate_travel_cost"

\* The stored zones the request selects
SelectedZones ==
    {z \in {db.zones[i] : i \in 1..Len(db.zones)} : Str(z.Id) = call.travel_zone_id}

NoTrips == call.trips = Null \/ call.trips = List(<<>>)

\* Trips as the API hands them over: records with integer days and people
TripsGiven ==
    /\ call.trips.k = "list"
    /\ call.trips.items # <<>>
    /\ \A i \in 1..Len(call.trips.items) :
        /\ call.trips.items[i].k = "dict"
        /\ IsInteger(Get(call.trips.items[i], "days", Null))
        /\ IsInteger(Get(call.trips.items[i], "people", Null))

TripCost(zone, days, people) ==
    RAdd(RAdd(RMul(zone.AirfareEstimate, RInt(people)),
              RMul(zone.HotelRate, RInt(people * (days + 1)))),
         RAdd(RMul(zone.PerDiemRate, RInt(people * (days + 1))),
              RMul(zone.VehicleRate, RInt(days + 1))))

RECURSIVE TripTotalsUpTo(_, _)
TripTotalsUpTo(trips, n) ==
    IF n = 0 THEN RZero ELSE RAdd(TripTotalsUpTo(trips, n - 1), trips[n].trip_total)

\* C17: for each trip, nights = days + 1 and trip_total = airfare * people +
\* hotel * people * nights + perDiem * people * nights + vehicle * nights at
\* the rates of the selected zone; the result holds one entry per trip in
\* the order of the request and total_travel_cost is the sum of the trip
\* totals; a missing or unknown zone or an empty trip list gives
\* total_travel_cost 0 and no error.
C17_TravelCost ==
    TravelReturned =>
        /\ (SelectedZones = {} \/ NoTrips) =>
                ret.ok /\ ret.v.total_travel_cost = RZero /\ ret.v.trips = <<>>
        /\ (SelectedZones # {} /\ TripsGiven) =>
            /\ ret.ok
            /\ Len(ret.v.trips) = Len(call.trips.items)
            /\ \A i \in 1..Len(ret.v.trips) :
                LET trip == call.trips.items[i]
                    zone == CHOOSE z \in SelectedZones : TRUE
                IN  /\ ret.v.trips[i].days = trip.m["days"].n
                    /\ ret.v.trips[i].people = trip.m["people"].n
                    /\ ret.v.trips[i].nights = trip.m["days"].n + 1
                    /\ ret.v.trips[i].trip_total =
                            TripCost(zone, trip.m["days"].n, trip.m["people"].n)
            /\ ret.v.total_travel_cost = TripTotalsUpTo(ret.v.trips, Len(ret.v.trips))

\* two trips of different lengths to a zone that is flown to
C17_Witness ==
    /\ TravelReturned
    /\ SelectedZones # {}
    /\ TripsGiven
    /\ ret.ok
    /\ Len(ret.v.trips) = 2
    /\ ret.v.trips[1].days > ret.v.trips[2].days
    /\ RLt(RZero, ret.v.trips[1].airfare_cost)
    /\ RLt(ret.v.trips[1].trip_total, ret.v.total_travel_cost)

(***************************************************************************)
(* ConfigurationService lookups and SaaSConfigurationService.              *)
(*                                                                         *)
(* A catalog holds the tables products, modules, integration_types, mature *)
(* and skus as sequences of rows; products and modules are kept in         *)
(* SortOrder order.  The lookups of one configure_saas call read a catalog *)
(* that does not change, so the cache of the ConfigurationService answers  *)
(* what the query answers.                                                 *)
(***************************************************************************)
\* Result.scalar_one_or_none()
\* scalar_one(): a query without a row is an error
scalar_one(rows) ==
    IF Len(rows) = 0 THEN Raise("NoResultFound")
    ELSE IF Len(rows) = 1 THEN Ok(rows[1])
    ELSE Raise("MultipleResultsFound")

scalar_one_or_none(rows) ==
    IF Len(rows) = 0 THEN Ok(Null)
    ELSE IF Len(rows) = 1 THEN Ok(rows[1])
    ELSE Raise("MultipleResultsFound")

\* The rows of a table for a pricing version that are active
ActiveOf(rows, version_id) ==
    SelectSeq(rows, LAMBDA r : r.PricingVersionId = version_id /\ r.IsActive)

get_saas_product(store, pinned, product_code) ==
    LET version_id == get_pricing_version_id(store, pinned)
    IN  IF ~version_id.ok THEN version_id
        ELSE scalar_one_or_none(
                SelectSeq(ActiveOf(store.products, version_id.v),
                          LAMBDA r : r.ProductCode = product_code))

get_all_saas_products(store, pinned) ==
    LET version_id == get_pricing_version_id(store, pinned)
    IN  IF ~version_id.ok THEN version_id
        ELSE Ok(ActiveOf(store.products, version_id.v))

get_all_application_modules(store, pinned) ==
    LET version_id == get_pricing_version_id(store, pinned)
    IN  IF ~version_id.ok THEN version_id
        ELSE Ok(ActiveOf(store.modules, version_id.v))

get_integration_type(store, pinned, type_code) ==
    LET version_id == get_pricing_version_id(store, pinned)
    IN  IF ~version_id.ok THEN version_id
        ELSE scalar_one_or_none(
                SelectSeq(ActiveOf(store.integration_types, version_id.v),
                          LAMBDA r : r.TypeCode = type_code))

\* Mature integrations carry no pricing version
get_mature_integration(store, system_name) ==
    scalar_one_or_none(
        SelectSeq(store.mature, LAMBDA r : Str(r.SystemName) = system_name /\ r.IsActive))

\* sku_code is the JSON value a rule or an integration type carries
get_sku(store, pinned, sku_code) ==
    LET version_id == get_pricing_version_id(store, pinned)
    IN  IF ~version_id.ok THEN version_id
        ELSE scalar_one_or_none(
                SelectSeq(ActiveOf(store.skus, version_id.v),
                          LAMBDA r : Str(r.SKUCode) = sku_code))

\* str.lower() on the texts that hold an upper-case letter
Lowered ==
    ("Basic" :> "basic") @@ ("BASIC" :> "basic") @@ ("Standard" :> "standard")
    @@ ("CHECK_RECOGNITION" :> "check_recognition")
    @@ ("REVENUE_SUBMISSION" :> "revenue_submission")

Lower(s) == IF s \in DOMAIN Lowered THEN Lowered[s] ELSE s

\* outcome of a list followed by the outcome of another list
Extend(head, rest) ==
    IF ~head.ok THEN head
    ELSE IF ~rest.ok THEN rest
    ELSE Ok(head.v \o rest.v)

\* "product.PricingFormula or {type: fixed, price: float(product.Tier1Price)}"
FormulaOf(product) ==
    IF Truthy(product.PricingFormula) THEN Ok(product.PricingFormula)
    ELSE IF product.Tier1Price = Null THEN Raise("TypeError")
    ELSE Ok(Dict(("type" :> Str("fixed")) @@ ("price" :> Num(product.Tier1Price))))

MonthlyCostOf(pricing_formula, context) ==
    IF ~pricing_formula.ok THEN pricing_formula
    ELSE calculate_price(pricing_formula.v, context)

ProductLine(product, name, category, monthly_cost, quantity, total_monthly, reason) ==
    [product_id |-> product.Id, product_code |-> product.ProductCode, name |-> name,
     category |-> category, monthly_cost |-> monthly_cost, quantity |-> quantity,
     total_monthly_cost |-> total_monthly, reason |-> reason]

\* float(sku.FixedPrice or 0)
UnitPriceOf(sku) == IF sku.FixedPrice = Null THEN RZero ELSE sku.FixedPrice

SetupLine(sku, quantity, reason) ==
    [sku_id |-> sku.Id, sku_code |-> sku.SKUCode, name |-> sku.Name,
     quantity |-> quantity, unit_price |-> UnitPriceOf(sku),
     total_price |-> RMul(UnitPriceOf(sku), RInt(quantity)), reason |-> reason]

\* The setup line of one SKU rule, as a list of one line or none
SetupLineOf(sku_result, sku) ==
    IF ~sku.ok THEN sku
    ELSE IF sku.v = Null THEN Ok(<<>>)
    ELSE Ok(<<SetupLine(sku.v, sku_result.quantity, sku_result.reason)>>)

SetupLineFor(store, pinned, sku_result) ==
    IF ~sku_result.ok THEN sku_result
    ELSE IF sku_result.v = Null THEN Ok(<<>>)
    ELSE SetupLineOf(sku_result.v, get_sku(store, pinned, sku_result.v.sku_code))

\* The loop over the SKU rules of a product or of a module, from rule i
RECURSIVE SetupLines(_, _, _, _, _)
SetupLines(store, pinned, sku_rules, i, context) ==
    IF i > Len(sku_rules) THEN Ok(<<>>)
    ELSE Extend(SetupLineFor(store, pinned,
                             evaluate_sku_selection_rule(sku_rules[i], context)),
                SetupLines(store, pinned, sku_rules, i + 1, context))

\* "x or []" followed by iteration
RulesOf(j) == IF Truthy(j) THEN Iterate(j) ELSE Ok(<<>>)

BaseProductResult(product, monthly_cost, setup_skus) ==
    IF ~monthly_cost.ok THEN monthly_cost
    ELSE IF ~setup_skus.ok THEN setup_skus
    ELSE Ok([product |->
                ProductLine(product, product.Name, product.Category, monthly_cost.v, 1,
                            monthly_cost.v, <<"Base ", product.Name, " product">>),
             setup_skus |-> setup_skus.v])

BaseProductOf(store, pinned, parameters, product) ==
    IF ~product.ok THEN product
    ELSE IF product.v = Null THEN Ok([product |-> Null, setup_skus |-> <<>>])
    ELSE IF ~RulesOf(product.v.RelatedSetupSKUs).ok
         THEN Extend(MonthlyCostOf(FormulaOf(product.v), parameters),
                     RulesOf(product.v.RelatedSetupSKUs))
    ELSE BaseProductResult(
            product.v,
            MonthlyCostOf(FormulaOf(product.v), parameters),
            SetupLines(store, pinned, RulesOf(product.v.RelatedSetupSKUs).v, 1,
                       parameters))

_process_base_product(store, pinned, parameters) ==
    LET base_product_type == Get(parameters, "base_product", Str("standard"))
    IN  IF base_product_type.k # "str" THEN Raise("AttributeError")
        ELSE BaseProductOf(store, pinned, parameters,
                           get_saas_product(store, pinned,
                                            IF Lower(base_product_type.s) = "basic"
                                            THEN "TELLER-BASIC"
                                            ELSE "TELLER-STANDARD"))

\* "x or {}"
OrEmptyDict(j) == IF Truthy(j) THEN j ELSE EmptyDict

\* all(evaluate_condition(c) for c in conditions), any(...): they stop at the
\* first condition that decides
AndThen(one, rest) ==
    IF ~one.ok THEN one ELSE IF ~one.v THEN Ok(FALSE) ELSE rest

OrElse(one, rest) ==
    IF ~one.ok THEN one ELSE IF one.v THEN Ok(TRUE) ELSE rest

RECURSIVE AllOf(_, _, _)
AllOf(conditions, i, context) ==
    IF i > Len(conditions) THEN Ok(TRUE)
    ELSE AndThen(evaluate_condition(conditions[i], context),
                 AllOf(conditions, i + 1, context))

RECURSIVE AnyOf(_, _, _)
AnyOf(conditions, i, context) ==
    IF i > Len(conditions) THEN Ok(FALSE)
    ELSE OrElse(evaluate_condition(conditions[i], context),
                AnyOf(conditions, i + 1, context))

\* "quantity is not None and quantity > 0"
IsPositive(quantity) ==
    IF ~quantity.ok THEN quantity
    ELSE IF quantity.v = Null THEN Ok(FALSE)
    ELSE IF IsNumber(quantity.v) THEN Ok(RLt(RZero, AsNumber(quantity.v)))
    ELSE Raise("TypeError")

\* should_include taken from the quantity parameter whether or not the
\* product has conditions
ShouldIncludeByQuantity(product, context) ==
    LET pricing_formula == OrEmptyDict(product.PricingFormula)
    IN  IF pricing_formula.k # "dict" THEN Raise("AttributeError")
        ELSE IF PyEq(Get(pricing_formula, "type", Null), Str("quantity_based"))
        THEN IsPositive(_get_nested_value(
                context, Get(pricing_formula, "quantityParameter", Str(""))))
        ELSE Ok(FALSE)

\* _process_addons: should_include of one add-on product
ShouldInclude(product, context) ==
    LET selection_rules == OrEmptyDict(product.SelectionRules)
        conditions == Get(selection_rules, "conditions", List(<<>>))
        pricing_formula == OrEmptyDict(product.PricingFormula)
    IN  IF selection_rules.k # "dict" THEN Raise("AttributeError")
        ELSE IF ~Truthy(conditions) THEN
            IF pricing_formula.k # "dict" THEN Raise("AttributeError")
            ELSE IF PyEq(Get(pricing_formula, "type", Null), Str("quantity_based"))
            THEN IsPositive(_get_nested_value(
                    context, Get(pricing_formula, "quantityParameter", Str(""))))
            ELSE Ok(FALSE)
        ELSE IF ~Iterate(conditions).ok THEN Iterate(conditions)
        ELSE IF PyEq(Get(selection_rules, "operator", Str("AND")), Str("AND"))
             THEN AllOf(Iterate(conditions).v, 1, context)
             ELSE AnyOf(Iterate(conditions).v, 1, context)

\* _process_addons: the quantity of an included add-on
AddonQuantity(pricing_formula, context) ==
    IF pricing_formula.k # "dict" THEN Raise("AttributeError")
    ELSE IF PyEq(Get(pricing_formula, "type", Null), Str("quantity_based")) THEN
        LET quantity_value ==
                _get_nested_value(context, Get(pricing_formula, "quantityParameter", Str("")))
        IN  IF ~quantity_value.ok THEN quantity_value
            ELSE IF Truthy(quantity_value.v) THEN ToInt(quantity_value.v)
            ELSE Ok(1)
    ELSE Ok(1)

\* _process_addons: the line of an included add-on
AddonLine(product, monthly_cost, quantity) ==
    IF ~monthly_cost.ok THEN monthly_cost
    ELSE IF ~quantity.ok THEN quantity
    ELSE Ok(<<ProductLine(product, product.Name, product.Category, monthly_cost.v,
                          quantity.v, RMul(monthly_cost.v, RInt(quantity.v)),
                          <<ToString(quantity.v), " ", product.Name>>)>>)

AddonOf(product, context, should_include) ==
    IF ~should_include.ok THEN should_include
    ELSE IF ~should_include.v THEN Ok(<<>>)
    ELSE IF ~FormulaOf(product).ok THEN FormulaOf(product)
    ELSE AddonLine(product, calculate_price(FormulaOf(product).v, context),
                   AddonQuantity(FormulaOf(product).v, context))

\* _process_addons: the loop over the add-on products, from product i
RECURSIVE Addons(_, _, _)
Addons(all_products, i, context) ==
    IF i > Len(all_products) THEN Ok(<<>>)
    ELSE IF all_products[i].ProductType # "addon"
         THEN Addons(all_products, i + 1, context)
    ELSE Extend(AddonOf(all_products[i], context,
                        ShouldInclude(all_products[i], context)),
                Addons(all_products, i + 1, context))

_process_addons(store, pinned, parameters) ==
    LET all_products == get_all_saas_products(store, pinned)
    IN  IF ~all_products.ok THEN all_products
        ELSE Addons(all_products.v, 1, parameters)

\* The lines of the later step put before those of the earlier one
LaterFirst(head, rest) ==
    IF ~head.ok THEN head
    ELSE IF ~rest.ok THEN rest
    ELSE Ok([products |-> rest.v.products \o head.v.products,
             setup_skus |-> rest.v.setup_skus \o head.v.setup_skus])

\* Two outcomes of [products, setup_skus], one after the other
ExtendBoth(head, rest) ==
    IF ~head.ok THEN head
    ELSE IF ~rest.ok THEN rest
    ELSE Ok([products |-> head.v.products \o rest.v.products,
             setup_skus |-> head.v.setup_skus \o rest.v.setup_skus])

NoLines == [products |-> <<>>, setup_skus |-> <<>>]

\* {"modules": {module_code_lower: module_params}, **parameters}
ModuleContext(parameters, module_code_lower, module_params) ==
    Dict(parameters.m @@ ("modules" :> Dict(module_code_lower :> module_params)))

\* volume_param_path.split(".")[-1].replace("_", " ")
VolumeUnit(volume_param_path) ==
    LET parts == SplitDots(StrChars(volume_param_path))
    IN  CharsStr(Replace(parts[Len(parts)], <<"_">>, <<" ">>))

\* _process_modules: the product line of a module with a linked product
ModuleProductLine(module, saas_product, pricing_formula, monthly_cost, volume) ==
    IF ~monthly_cost.ok THEN monthly_cost
    ELSE IF ~volume.ok THEN volume
    ELSE LET line == ProductLine(saas_product, module.ModuleName, "Module",
                                 monthly_cost.v, 1, monthly_cost.v,
                                 <<module.ModuleName, " module enabled">>)
         IN  IF volume.v = Null THEN Ok(<<line>>)
             ELSE Ok(<<line @@ [volume |-> volume.v,
                                volume_unit |->
                                    VolumeUnit(pricing_formula.m["volumeParameter"].s)]>>)

\* _process_modules: "Extract volume parameter for display"
VolumeOf(pricing_formula, context) ==
    IF pricing_formula.k # "dict" THEN Raise("AttributeError")
    ELSE IF Truthy(Get(pricing_formula, "volumeParameter", Str("")))
         THEN _get_nested_value(context, Get(pricing_formula, "volumeParameter", Str("")))
         ELSE Ok(Null)

ModuleProductOf(module, saas_products, context) ==
    IF Len(saas_products) = 0 THEN Ok(<<>>)
    ELSE IF ~FormulaOf(saas_products[1]).ok THEN FormulaOf(saas_products[1])
    ELSE ModuleProductLine(module, saas_products[1], FormulaOf(saas_products[1]).v,
                           calculate_price(FormulaOf(saas_products[1]).v, context),
                           VolumeOf(FormulaOf(saas_products[1]).v, context))

\* products and setup SKUs of one module put together
ModuleResult(products, setup_sku_rules, setup_skus) ==
    IF ~products.ok THEN products
    ELSE IF ~setup_sku_rules.ok THEN setup_sku_rules
    ELSE IF ~setup_skus.ok THEN setup_skus
    ELSE Ok([products |-> products.v, setup_skus |-> setup_skus.v])

\* _process_modules: the body of the loop for an enabled module
EnabledModule(store, pinned, module, all_products, context) ==
    LET selection_rules == OrEmptyDict(module.SelectionRules)
        setup_sku_rules ==
            IF selection_rules.k # "dict" THEN Raise("AttributeError")
            ELSE Iterate(Get(selection_rules, "setupSKUs", List(<<>>)))
    IN  IF Truthy(module.SaaSProductId) /\ ~all_products.ok THEN all_products
        ELSE ModuleResult(
                IF Truthy(module.SaaSProductId)
                THEN ModuleProductOf(
                        module,
                        SelectSeq(all_products.v,
                                  LAMBDA r : Int_(r.Id) = module.SaaSProductId),
                        context)
                ELSE Ok(<<>>),
                setup_sku_rules,
                SetupLines(store, pinned, setup_sku_rules.v, 1, context))

\* _process_modules: the body of the loop for one module
ModuleOf(store, pinned, parameters, module) ==
    LET modules_config == Get(parameters, "modules", EmptyDict)
        module_code_lower == Lower(module.ModuleCode)
        module_params == Get(modules_config, module_code_lower, EmptyDict)
    IN  IF modules_config.k # "dict" \/ module_params.k # "dict"
        THEN Raise("AttributeError")
        ELSE IF ~Truthy(Get(module_params, "enabled", Bool(FALSE))) THEN Ok(NoLines)
        ELSE EnabledModule(store, pinned, module, get_all_saas_products(store, pinned),
                           ModuleContext(parameters, module_code_lower, module_params))

RECURSIVE Modules(_, _, _, _, _)
Modules(store, pinned, parameters, all_modules, i) ==
    IF i > Len(all_modules) THEN Ok(NoLines)
    ELSE ExtendBoth(ModuleOf(store, pinned, parameters, all_modules[i]),
                    Modules(store, pinned, parameters, all_modules, i + 1))

_process_modules(store, pinned, parameters) ==
    LET all_modules == get_all_application_modules(store, pinned)
    IN  IF ~all_modules.ok THEN all_modules
        ELSE Modules(store, pinned, parameters, all_modules.v, 1)

\* The setup line taken from the custom setup SKU whatever the registry says
IntegrationSetupCustom(store, pinned, int_type, integration, is_mature) ==
    IF ~is_mature.ok THEN is_mature
    ELSE LET sku == get_sku(store, pinned, int_type.CustomSetupSKU)
         IN  IF ~Truthy(int_type.CustomSetupSKU) THEN Ok(<<>>)
             ELSE IF ~sku.ok THEN sku
             ELSE IF sku.v = Null THEN Ok(<<>>)
             ELSE Ok(<<SetupLine(sku.v, 1,
                                 <<"Custom integration development for ",
                                   Get(integration, "system_name", Null)>>)>>)

\* _process_integrations: the setup line of one integration, if any
IntegrationSetup(store, pinned, int_type, integration, is_mature) ==
    IF ~is_mature.ok THEN is_mature
    ELSE LET sku_code == IF is_mature.v # Null THEN int_type.MatureSetupSKU
                         ELSE int_type.CustomSetupSKU
             sku == get_sku(store, pinned, sku_code)
             system_name == Get(integration, "system_name", Null)
         IN  IF ~Truthy(sku_code) THEN Ok(<<>>)
             ELSE IF ~sku.ok THEN sku
             ELSE IF sku.v = Null THEN Ok(<<>>)
             ELSE Ok(<<SetupLine(sku.v, 1,
                                 IF is_mature.v # Null
                                 THEN <<system_name, " uses existing Teller interface">>
                                 ELSE <<"Custom integration development for ",
                                        system_name>>)>>)

\* _process_integrations: the body of the loop for one integration
IntegrationOf(store, pinned, int_type, product_id, product_code, label, integration) ==
    IF integration.k # "dict" THEN Raise("AttributeError")
    ELSE ExtendBoth(
            Ok([products |->
                    <<[product_id |-> product_id, product_code |-> product_code,
                       name |-> <<label.name, Get(integration, "system_name", Str("Unknown"))>>,
                       category |-> "Interface",
                       monthly_cost |-> int_type.MonthlyCost,
                       quantity |-> 1,
                       total_monthly_cost |-> int_type.MonthlyCost,
                       reason |-> <<label.reason,
                                    Get(integration, "system_name", Str("Unknown"))>>,
                       integration_details |-> integration]>>,
                setup_skus |-> <<>>]),
            IF Truthy(Get(integration, "is_new", Bool(TRUE)))
            THEN LET setup == IntegrationSetup(
                                store, pinned, int_type, integration,
                                get_mature_integration(
                                    store, Get(integration, "system_name", Str(""))))
                 IN  IF ~setup.ok THEN setup
                     ELSE Ok([products |-> <<>>, setup_skus |-> setup.v])
            ELSE Ok(NoLines))

RECURSIVE Integrations(_, _, _, _, _, _, _, _)
Integrations(store, pinned, int_type, product_id, product_code, label, items, i) ==
    IF i > Len(items) THEN Ok(NoLines)
    ELSE ExtendBoth(
            IntegrationOf(store, pinned, int_type, product_id, product_code, label,
                          items[i]),
            Integrations(store, pinned, int_type, product_id, product_code, label,
                         items, i + 1))

\* _process_integrations: one of its two blocks, once the lookups have answered
IntegrationsWith(store, pinned, int_type, product, product_code, label, items) ==
    IF ~int_type.ok THEN int_type
    ELSE IF int_type.v = Null THEN Ok(NoLines)
    ELSE IF ~product.ok THEN product
    ELSE IF ~items.ok THEN items
    ELSE Integrations(store, pinned, int_type.v,
                      IF product.v = Null THEN "" ELSE ToString(product.v.Id),
                      product_code, label, items.v, 1)

\* _process_integrations: the block of one integration type
IntegrationsOfType(store, pinned, integrations_config, key, type_code, product_code, label) ==
    IF ~Truthy(Get(integrations_config, key, List(<<>>))) THEN Ok(NoLines)
    ELSE IntegrationsWith(store, pinned,
                          get_integration_type(store, pinned, type_code),
                          get_saas_product(store, pinned, product_code),
                          product_code, label,
                          Iterate(Get(integrations_config, key, List(<<>>))))

_process_integrations(store, pinned, parameters) ==
    LET integrations_config == Get(parameters, "integrations", EmptyDict)
    IN  IF integrations_config.k # "dict" THEN Raise("AttributeError")
        ELSE ExtendBoth(
                IntegrationsOfType(
                    store, pinned, integrations_config, "bidirectional", "BIDIRECTIONAL",
                    "INTERFACE-BIDIRECTIONAL",
                    [name |-> "Bi-Directional Interface: ",
                     reason |-> "Bi-directional interface for "]),
                IntegrationsOfType(
                    store, pinned, integrations_config, "payment_import", "PAYMENT_IMPORT",
                    "INTERFACE-PAYMENT-IMPORT",
                    [name |-> "Payment Import: ",
                     reason |-> "Payment import interface for "]))

\* sum(Decimal(str(line[field])) for line in lines)
RECURSIVE SumOf(_, _)
SumOf(lines, field) ==
    IF lines = <<>> THEN RZero ELSE RAdd(lines[1][field], SumOf(Tail(lines), field))

\* format(x, ",.2f"): the amount in whole cents, ties to even
Cents(x) ==
    LET scaled == RMul(x, RInt(100))
        below == RFloor(scaled)
        twice == RSub(RMul(scaled, RInt(2)), RInt(2 * below))
    IN  IF RLt(twice, RInt(1)) THEN Rat(below, 100)
        ELSE IF RLt(RInt(1), twice) THEN Rat(below + 1, 100)
        ELSE IF below % 2 = 0 THEN Rat(below, 100)
        ELSE Rat(below + 1, 100)

Counted(n, word) ==
    IF n = 0 THEN <<>>
    ELSE <<<<ToString(n), " ", word, IF n # 1 THEN "s" ELSE "">>>>

Summary(base_product, module_count, integration_count, total_monthly, total_setup) ==
    [parts |-> <<<<IF base_product = Null THEN "Teller" ELSE base_product.name>>>>
                 \o Counted(module_count, "module")
                 \o Counted(integration_count, "integration"),
     monthly |-> Cents(total_monthly),
     setup |-> Cents(total_setup)]

\* configure_saas from "Calculate totals" on
ConfigurationResult(base_product, selected_products, setup_skus, module_count, integration_count) ==
    [selected_products |-> selected_products,
     setup_skus |-> setup_skus,
     total_monthly_cost |-> SumOf(selected_products, "total_monthly_cost"),
     total_setup_cost |-> SumOf(setup_skus, "total_price"),
     summary |-> Summary(base_product, module_count, integration_count,
                         SumOf(selected_products, "total_monthly_cost"),
                         SumOf(setup_skus, "total_price"))]

\* configure_saas once its four steps have answered, in their order
ConfigurationOf(base_result, addon_results, module_results, integration_results) ==
    IF ~base_result.ok THEN base_result
    ELSE IF ~addon_results.ok THEN addon_results
    ELSE IF ~module_results.ok THEN module_results
    ELSE IF ~integration_results.ok THEN integration_results
    ELSE Ok(ConfigurationResult(
            base_result.v.product,
            (IF base_result.v.product = Null THEN <<>> ELSE <<base_result.v.product>>)
                \o addon_results.v \o module_results.v.products
                \o integration_results.v.products,
            base_result.v.setup_skus \o module_results.v.setup_skus
                \o integration_results.v.setup_skus,
            Len(module_results.v.products),
            Len(integration_results.v.products)))

configure_saas(store, pinned, parameters) ==
    ConfigurationOf(_process_base_product(store, pinned, parameters),
                    _process_addons(store, pinned, parameters),
                    _process_modules(store, pinned, parameters),
                    _process_integrations(store, pinned, parameters))

(***************************************************************************)
(* Inputs of the SaaSConfigurationService: catalogs and parameters.        *)
(***************************************************************************)
ProductRow(id, version, code, name, category, type, formula, selection, related) ==
    [Id |-> id, PricingVersionId |-> version, ProductCode |-> code, Name |-> name,
     Category |-> category, ProductType |-> type, IsActive |-> TRUE,
     Tier1Price |-> RInt(1950), PricingFormula |-> formula,
     SelectionRules |-> selection, RelatedSetupSKUs |-> related]

ModuleRow(id, code, name, product_id, selection) ==
    [Id |-> id, PricingVersionId |-> 1, ModuleCode |-> code, ModuleName |-> name,
     IsActive |-> TRUE, SaaSProductId |-> product_id, SelectionRules |-> selection]

IntegrationTypeRow(code, monthly_cost, mature_sku, custom_sku) ==
    [PricingVersionId |-> 1, TypeCode |-> code, IsActive |-> TRUE,
     MonthlyCost |-> monthly_cost, MatureSetupSKU |-> mature_sku,
     CustomSetupSKU |-> custom_sku]

SkuRow(id, version, code, fixed_price) ==
    [Id |-> id, PricingVersionId |-> version, SKUCode |-> code, Name |-> code,
     IsActive |-> TRUE, FixedPrice |-> fixed_price]

FixedPrice(price) == Dict(("type" :> Str("fixed")) @@ ("price" :> Int_(price)))

SkuRule(condition, sku_code, quantity) ==
    Dict(("condition" :> condition) @@ ("skuCode" :> Str(sku_code))
         @@ ("quantity" :> quantity) @@ ("reason" :> Str("required")))

OrgSetup == List(<<SkuRule(Dict("type" :> Str("always")), "ORG-SETUP-BASIC", Int_(1))>>)

UsersFormula ==
    Dict(("type" :> Str("quantity_based")) @@ ("pricePerUnit" :> Int_(60))
         @@ ("quantityParameter" :> Str("additional_users")))

UsersCondition ==
    With(Cond("parameter_greater_than", Str("additional_users")), "value", Int_(0))

ScanFormula ==
    Dict(("type" :> Str("tiered"))
         @@ ("volumeParameter" :> Str("modules.check_recognition.scan_volume"))
         @@ ("tiers" :> List(<<Tier(Int_(0), Int_(50000), Int_(1030)),
                               Tier(Int_(50001), Null, Int_(1500))>>)))

TellerStandard ==
    ProductRow(1, 1, "TELLER-STANDARD", "Teller Standard", "Core", "base",
               FixedPrice(2950), Null, OrgSetup)
TellerBasic ==
    ProductRow(2, 1, "TELLER-BASIC", "Teller Basic", "Core", "base",
               Null, Null, OrgSetup)
AdditionalUsers(selection) ==
    ProductRow(3, 1, "ADDITIONAL-USERS", "Additional Users", "Add-on", "addon",
               UsersFormula, selection, Null)
CheckRecognition ==
    ProductRow(4, 1, "CHECK-RECOGNITION", "Check Recognition", "Module", "module",
               ScanFormula, Null, Null)
InterfaceBidirectional ==
    ProductRow(5, 1, "INTERFACE-BIDIRECTIONAL", "Bi-Directional Interface",
               "Interface", "interface", FixedPrice(285), Null, Null)
OldStandard ==
    ProductRow(6, 2, "TELLER-STANDARD", "Teller Standard", "Core", "base",
               FixedPrice(2500), Null, Null)
RetiredAddon ==
    [ProductRow(7, 1, "RETIRED", "Retired Add-on", "Add-on", "addon",
                FixedPrice(10), Dict("conditions" :> List(<<Dict("type" :> Str("always"))>>)),
                Null) EXCEPT !.IsActive = FALSE]
Support ==
    ProductRow(8, 1, "SUPPORT", "Premium Support", "Add-on", "addon", FixedPrice(100),
               Dict(("operator" :> Str("OR")) @@
                    ("conditions" :>
                        List(<<With(Cond("parameter_equals", Str("base_product")),
                                    "value", Str("basic")),
                               UsersCondition>>))),
               Null)

TrainingSeats ==
    ProductRow(9, 1, "TRAINING-SEATS", "Training Seats", "Add-on", "addon", UsersFormula,
               Dict("conditions" :>
                        List(<<With(Cond("parameter_equals", Str("base_product")),
                                    "value", Str("basic"))>>)),
               Null)

SeedModules ==
    << ModuleRow(1, "CHECK_RECOGNITION", "Check Recognition", Int_(4),
                 Dict("setupSKUs" :>
                    List(<<SkuRule(With(Cond("parameter_equals",
                                             Str("modules.check_recognition.is_new")),
                                        "value", Bool(TRUE)),
                                   "CHECK-ICL-SETUP", Int_(1))>>))),
       ModuleRow(2, "REVENUE_SUBMISSION", "Revenue Submission", Null,
                 Dict("setupSKUs" :>
                    List(<<SkuRule(Dict("type" :> Str("always")), "REV-SUB-SETUP",
                                   Int_(2))>>))) >>

SeedIntegrationTypes ==
    << IntegrationTypeRow("BIDIRECTIONAL", RInt(285), Str("INTEGRATION-MATURE"),
                          Str("INTEGRATION-CUSTOM")),
       IntegrationTypeRow("PAYMENT_IMPORT", RInt(170), Str("INTEGRATION-MATURE"),
                          Str("INTEGRATION-CUSTOM")) >>

SeedMature == << [SystemName |-> "Tyler Munis", IsActive |-> TRUE] >>

SeedSkus ==
    << SkuRow(1, 1, "ORG-SETUP-BASIC", RInt(64400)),
       SkuRow(2, 1, "CHECK-ICL-SETUP", RInt(12880)),
       SkuRow(3, 1, "REV-SUB-SETUP", Rat(9205, 2)),
       SkuRow(4, 1, "INTEGRATION-MATURE", RInt(7360)),
       SkuRow(5, 1, "INTEGRATION-CUSTOM", RInt(28520)),
       SkuRow(6, 2, "ORG-SETUP-BASIC", RInt(60000)) >>

Catalog(versions, products, modules, integration_types, skus) ==
    [versions |-> versions, products |-> products, modules |-> modules,
     integration_types |-> integration_types, mature |-> SeedMature, skus |-> skus]

SeedProducts(selection) ==
    <<TellerStandard, TellerBasic, AdditionalUsers(selection), CheckRecognition,
      InterfaceBidirectional, OldStandard, RetiredAddon>>

SeedCatalog ==
    Catalog(CurrentAndOld, SeedProducts(Dict("conditions" :> List(<<UsersCondition>>))),
            SeedModules, SeedIntegrationTypes, SeedSkus)

SaasDbs ==
    { SeedCatalog,
      \* the add-on selected by its quantity parameter alone
      Catalog(CurrentAndOld, SeedProducts(Null), SeedModules, SeedIntegrationTypes,
              SeedSkus),
      \* a second add-on, chosen by an OR of conditions
      Catalog(CurrentAndOld,
              SeedProducts(Dict("conditions" :> List(<<UsersCondition>>)))
                  \o <<Support>>,
              SeedModules, SeedIntegrationTypes, SeedSkus),
      \* an add-on priced per unit whose condition does not read its quantity
      Catalog(CurrentAndOld, SeedProducts(Null) \o <<TrainingSeats>>,
              SeedModules, SeedIntegrationTypes, SeedSkus),
      \* references that resolve to nothing: no basic product, no payment
      \* import type, no custom integration SKU, a SKU without a price
      Catalog(CurrentAndOld,
              <<TellerStandard, AdditionalUsers(Null), OldStandard>>,
              SeedModules,
              SubSeq(SeedIntegrationTypes, 1, 1),
              << SkuRow(1, 1, "ORG-SETUP-BASIC", Null),
                 SkuRow(4, 1, "INTEGRATION-MATURE", RInt(7360)) >>),
      Catalog(NoCurrent, SeedProducts(Null), SeedModules, SeedIntegrationTypes,
              SeedSkus) }

Absent == [x \in {} |-> Null]
Field(key, value) == IF value = Null THEN Absent ELSE (key :> value)

SaasParameters(base_product, additional_users, modules, integrations) ==
    Dict(Field("base_product", base_product) @@ Field("additional_users", additional_users)
         @@ Field("modules", modules) @@ Field("integrations", integrations))

Integration(system_name) == Dict("system_name" :> Str(system_name))

ModuleChoices ==
    { Null,
      Dict("check_recognition" :>
            Dict(("enabled" :> Bool(TRUE)) @@ ("is_new" :> Bool(TRUE))
                 @@ ("scan_volume" :> Int_(75000)))),
      Dict(("check_recognition" :>
                Dict(("enabled" :> Bool(TRUE)) @@ ("is_new" :> Bool(FALSE))))
           @@ ("revenue_submission" :> Dict("enabled" :> Bool(TRUE)))),
      Dict("check_recognition" :> Dict("enabled" :> Bool(FALSE))) }

IntegrationChoices ==
    { Null,
      Dict("bidirectional" :> List(<<Integration("Tyler Munis")>>)),
      Dict(("bidirectional" :>
                List(<<Integration("Acme"),
                       With(Integration("Tyler Munis"), "is_new", Bool(FALSE))>>))
           @@ ("payment_import" :> List(<<Integration("Springbrook")>>))),
      Dict(("bidirectional" :>
                List(<<With(Integration("Tyler Munis"), "is_new", Bool(TRUE))>>))
           @@ ("payment_import" :>
                List(<<With(Integration("Acme"), "is_new", Bool(TRUE)),
                       With(Integration("Tyler Munis"), "is_new", Bool(FALSE))>>))) }

SaasParameterSets ==
    {SaasParameters(b, u, m, i) :
        b \in {Null, Str("standard"), Str("basic"), Str("Basic")},
        u \in {Null, Int_(0), Int_(1), Int_(3)},
        m \in ModuleChoices,
        i \in IntegrationChoices}

\* The keys a request body may carry, in the order a client writes them or
\* in the opposite order
KeysWritten ==
    <<"base_product", "additional_users", "modules", "integrations",
      "check_recognition", "revenue_submission", "bidirectional", "payment_import">>

RECURSIVE Reverse(_)
Reverse(seq) == IF seq = <<>> THEN <<>> ELSE Reverse(Tail(seq)) \o <<seq[1]>>

KeyOrder(m, forward) ==
    SelectSeq(IF forward THEN KeysWritten ELSE Reverse(KeysWritten),
              LAMBDA key : key \in DOMAIN m)

\* The request body with its keys, and those of its modules and
\* integrations objects, written in one of the two orders
WithKeyOrder(parameters, forward) ==
    ODict([key \in DOMAIN parameters.m |->
                IF key \in {"modules", "integrations"} /\ parameters.m[key].k = "dict"
                THEN ODict(parameters.m[key].m, KeyOrder(parameters.m[key].m, forward))
                ELSE parameters.m[key]],
          KeyOrder(parameters.m, forward))

KeyOrderedParameterSets ==
    {WithKeyOrder(SaasParameters(b, u, m, i), forward) :
        b \in {Str("standard"), Str("basic")},
        u \in {Int_(0), Int_(3)},
        m \in ModuleChoices \ {Null},
        i \in IntegrationChoices \ {Null},
        forward \in BOOLEAN}

(***************************************************************************)
(* The SaaSConfigurationService as a state machine: each request is served *)
(* by a fresh service, with a pinned pricing version or none.              *)
(***************************************************************************)
SaasRequests ==
    {[op |-> "configure_saas", pinned |-> v, parameters |-> ps] :
        v \in {NoVersion, 2}, ps \in SaasParameterSets \cup KeyOrderedParameterSets}

InitSaas ==
    /\ db \in SaasDbs
    /\ call \in SaasRequests
    /\ ret = Pending
    /\ evald = {}
    /\ svc = NoServices

ConfigureSaas ==
    /\ call.op = "configure_saas"
    /\ ret = Pending
    /\ ret' = configure_saas(db, call.pinned, call.parameters)
    /\ UNCHANGED <<call, evald, db, svc>>

NextSaas == ConfigureSaas

SpecSaas == InitSaas /\ [][NextSaas]_vars

(***************************************************************************)
(* Properties of the SaaSConfigurationService.                             *)
(***************************************************************************)
ConfigurationReturned == Returned /\ call.op = "configure_saas" /\ ret.ok

\* The stored product a line was built from, when it is priced per unit
QuantityPriced(line) ==
    {r \in {db.products[i] : i \in 1..Len(db.products)} :
        /\ r.Id = line.product_id
        /\ r.PricingFormula.k = "dict"
        /\ PyEq(Get(r.PricingFormula, "type", Null), Str("quantity_based"))}

RECURSIVE Total(_, _, _)
Total(lines, field, i) ==
    IF i > Len(lines) THEN RZero ELSE RAdd(lines[i][field], Total(lines, field, i + 1))

\* C4: every selected product line has total_monthly_cost = monthly_cost *
\* quantity; the line of a quantity-based add-on with unit price p and
\* quantity q has monthly_cost p, quantity q and total_monthly_cost p * q;
\* every setup line has total_price = unit_price * quantity; the totals of the
\* result are the sums of the extended prices of the lines.
C4_LineArithmetic ==
    ConfigurationReturned =>
        /\ \A i \in 1..Len(ret.v.selected_products) :
            LET line == ret.v.selected_products[i]
            IN  /\ line.total_monthly_cost = RMul(line.monthly_cost, RInt(line.quantity))
                /\ (line.category = "Add-on" /\ QuantityPriced(line) # {}) =>
                    \A r \in QuantityPriced(line) :
                        LET p == ToDecimal(Get(r.PricingFormula, "pricePerUnit", Int_(0))).v
                            q == ToInt(Get(call.parameters,
                                           r.PricingFormula.m["quantityParameter"].s,
                                           Int_(0))).v
                        IN  /\ line.monthly_cost = p
                            /\ line.quantity = q
                            /\ line.total_monthly_cost = RMul(p, RInt(q))
        /\ \A i \in 1..Len(ret.v.setup_skus) :
            ret.v.setup_skus[i].total_price =
                RMul(ret.v.setup_skus[i].unit_price, RInt(ret.v.setup_skus[i].quantity))
        /\ ret.v.total_monthly_cost = Total(ret.v.selected_products, "total_monthly_cost", 1)
        /\ ret.v.total_setup_cost = Total(ret.v.setup_skus, "total_price", 1)

\* The step of configure_saas a product line comes from: 1 base product,
\* 2 add-ons, 3 application modules, 4 bidirectional integrations,
\* 5 payment_import integrations
StepOf(line) ==
    IF line.category = "Interface"
    THEN IF line.product_code = "INTERFACE-BIDIRECTIONAL" THEN 4 ELSE 5
    ELSE IF line.category = "Module" THEN 3
    ELSE IF \E i \in 1..Len(db.products) :
                /\ db.products[i].ProductCode = line.product_code
                /\ db.products[i].ProductType = "addon"
         THEN 2
         ELSE 1

IntegrationSetupCodes ==
    UNION {{db.integration_types[i].MatureSetupSKU.s,
            db.integration_types[i].CustomSetupSKU.s} : i \in 1..Len(db.integration_types)}

ModuleSetupCodes ==
    UNION {{rule.m["skuCode"].s :
                rule \in {db.modules[i].SelectionRules.m["setupSKUs"].items[j] :
                            j \in 1..Len(db.modules[i].SelectionRules.m["setupSKUs"].items)}} :
           i \in 1..Len(db.modules)}

\* The step a setup item comes from: 1 base product, 2 modules, 3 integrations
SetupStepOf(item) ==
    IF item.sku_code \in IntegrationSetupCodes THEN 3
    ELSE IF item.sku_code \in ModuleSetupCodes THEN 2
    ELSE 1

InStepOrder(lines, Step(_)) ==
    \A i, j \in 1..Len(lines) : i < j => Step(lines[i]) <= Step(lines[j])

\* The same request with the keys of its body written in the opposite order
KeysReversed ==
    WithKeyOrder(call.parameters, call.parameters.order # KeyOrder(call.parameters.m, TRUE))

\* C18: the product lines come out in the order base product, add-ons,
\* application modules, bidirectional integrations, payment_import
\* integrations, and the setup items in the order base product, modules,
\* integrations; over the same catalog the output does not depend on the
\* order in which the keys of the request body are written.
C18_ProcessingOrder ==
    ConfigurationReturned =>
        /\ InStepOrder(ret.v.selected_products, StepOf)
        /\ InStepOrder(ret.v.setup_skus, SetupStepOf)
        /\ "order" \in DOMAIN call.parameters =>
                ret = configure_saas(db, call.pinned, KeysReversed)

\* a request written with integrations before modules before the base
\* product gets lines of all five steps and setup items of all three
C18_Witness ==
    /\ ConfigurationReturned
    /\ "order" \in DOMAIN call.parameters
    /\ call.parameters.order[1] = "integrations"
    /\ call.parameters.m["integrations"].order[1] = "payment_import"
    /\ {StepOf(ret.v.selected_products[i]) : i \in 1..Len(ret.v.selected_products)}
            = 1..5
    /\ {SetupStepOf(ret.v.setup_skus[i]) : i \in 1..Len(ret.v.setup_skus)} = 1..3

\* The add-on products of the pricing version the request resolves to
AddonProducts ==
    LET all_products == get_all_saas_products(db, call.pinned).v
    IN  {all_products[i] : i \in {j \in 1..Len(all_products) :
                                    all_products[j].ProductType = "addon"}}

Included(product) ==
    \E i \in 1..Len(ret.v.selected_products) :
        ret.v.selected_products[i].product_code = product.ProductCode

HasConditions(product) ==
    /\ product.SelectionRules # Null
    /\ "conditions" \in DOMAIN product.SelectionRules.m
    /\ product.SelectionRules.m["conditions"].items # <<>>

ConditionsSatisfied(product) ==
    /\ HasConditions(product)
    /\ LET conditions == product.SelectionRules.m["conditions"].items
           holds(i) == evaluate_condition(conditions[i], call.parameters) = Ok(TRUE)
       IN  IF Get(product.SelectionRules, "operator", Str("AND")) = Str("AND")
           THEN \A i \in 1..Len(conditions) : holds(i)
           ELSE \E i \in 1..Len(conditions) : holds(i)

QuantityPositive(product) ==
    /\ product.PricingFormula # Null
    /\ Get(product.PricingFormula, "type", Null) = Str("quantity_based")
    /\ LET quantity == _get_nested_value(call.parameters,
                            Get(product.PricingFormula, "quantityParameter", Str("")))
       IN  quantity.ok /\ IsNumber(quantity.v) /\ RLt(RZero, AsNumber(quantity.v))

\* C19 as stated: an add-on product is in the configuration if its quantity
\* parameter is positive or its selection conditions are satisfied, and is
\* left out only when neither holds.
C19_QuantityOrConditions ==
    ConfigurationReturned =>
        \A product \in AddonProducts :
            Included(product) <=> (QuantityPositive(product) \/ ConditionsSatisfied(product))

\* C19 amended: an add-on product that has selection conditions is in the
\* configuration exactly when they are satisfied; one without conditions
\* exactly when it is priced per unit and its quantity parameter is positive.
C19_ConditionsBeforeQuantity ==
    ConfigurationReturned =>
        \A product \in AddonProducts :
            Included(product) <=>
                IF HasConditions(product) THEN ConditionsSatisfied(product)
                ELSE QuantityPositive(product)

\* one add-on left out on its conditions although its quantity is positive,
\* next to one without conditions taken on its quantity
C19_Witness ==
    /\ ConfigurationReturned
    /\ \E product \in AddonProducts :
            /\ HasConditions(product) /\ QuantityPositive(product)
            /\ ~ConditionsSatisfied(product) /\ ~Included(product)
    /\ \E product \in AddonProducts : ~HasConditions(product) /\ Included(product)

\* The two categories of integrations: the key of the request, the code of
\* the integration type and the code of the interface product
IntegrationCategories ==
    { [key |-> "bidirectional", type_code |-> "BIDIRECTIONAL",
       product_code |-> "INTERFACE-BIDIRECTIONAL"],
      [key |-> "payment_import", type_code |-> "PAYMENT_IMPORT",
       product_code |-> "INTERFACE-PAYMENT-IMPORT"] }

TypeOf(category) == get_integration_type(db, call.pinned, category.type_code).v

\* The systems the request names in a category
Listed(category) ==
    Get(Get(call.parameters, "integrations", EmptyDict), category.key, List(<<>>)).items

\* The systems of the categories whose integration type is configured,
\* bidirectional before payment_import
ListedOfConfigured ==
    LET of(category) == IF TypeOf(category) = Null THEN <<>>
                        ELSE [i \in 1..Len(Listed(category)) |->
                                [system |-> Listed(category)[i], type |-> TypeOf(category)]]
    IN  of(CHOOSE c \in IntegrationCategories : c.key = "bidirectional")
        \o of(CHOOSE c \in IntegrationCategories : c.key = "payment_import")

FeeLines(category) ==
    SelectSeq(ret.v.selected_products,
              LAMBDA line : line.category = "Interface"
                            /\ line.product_code = category.product_code)

InRegistry(system) ==
    \E i \in 1..Len(db.mature) :
        db.mature[i].IsActive /\ Str(db.mature[i].SystemName) = system.m["system_name"]

\* The code of the setup SKU the integration type names for a system
SetupCodeFor(listed) ==
    IF InRegistry(listed.system) THEN listed.type.MatureSetupSKU
    ELSE listed.type.CustomSetupSKU

\* The code names an active SKU of the pricing version of the request
IsSkuOfVersion(code) ==
    /\ code # Null
    /\ \E i \in 1..Len(db.skus) :
            /\ Str(db.skus[i].SKUCode) = code
            /\ db.skus[i].IsActive
            /\ db.skus[i].PricingVersionId = get_pricing_version_id(db, call.pinned).v

MarkedNew(system) == Get(system, "is_new", Bool(TRUE)) = Bool(TRUE)

\* The codes of the setup items the listed systems are to contribute, from
\* system i on; with existing_only a system whose setup SKU is not a SKU of
\* the version contributes none
RECURSIVE SetupCodesFrom(_, _, _)
SetupCodesFrom(listed, i, existing_only) ==
    IF i > Len(listed) THEN <<>>
    ELSE (IF /\ MarkedNew(listed[i].system)
             /\ existing_only => IsSkuOfVersion(SetupCodeFor(listed[i]))
          THEN <<SetupCodeFor(listed[i])>>
          ELSE <<>>)
         \o SetupCodesFrom(listed, i + 1, existing_only)

\* The codes of the setup items that come from integrations, in output order
IntegrationSetupItems ==
    LET items == SelectSeq(ret.v.setup_skus, LAMBDA item : SetupStepOf(item) = 3)
    IN  [i \in 1..Len(items) |-> Str(items[i].sku_code)]

\* every listed system of a configured type has exactly one fee line, at
\* the monthly cost of the type
OneFeeLineEach ==
    \A category \in IntegrationCategories :
        TypeOf(category) # Null =>
            /\ Len(FeeLines(category)) = Len(Listed(category))
            /\ \A i \in 1..Len(Listed(category)) :
                    /\ FeeLines(category)[i].integration_details = Listed(category)[i]
                    /\ FeeLines(category)[i].monthly_cost = TypeOf(category).MonthlyCost
                    /\ FeeLines(category)[i].total_monthly_cost = TypeOf(category).MonthlyCost

VersionOfCall == get_pricing_version_id(db, call.pinned).v

Read(row) == row.IsActive /\ row.PricingVersionId = VersionOfCall

ActiveSkuCodes ==
    {Str(db.skus[i].SKUCode) : i \in {j \in 1..Len(db.skus) : Read(db.skus[j])}}

ActiveProductIds ==
    {Int_(db.products[i].Id) : i \in {j \in 1..Len(db.products) : Read(db.products[j])}}

\* The selection rules that name a setup SKU of the version
ResolvingRules(rules) ==
    IF rules = Null THEN Null
    ELSE List(SelectSeq(rules.items, LAMBDA rule : rule.m["skuCode"] \in ActiveSkuCodes))

\* The catalog with the unresolvable references of the rows the request
\* reads taken out: rules that name no setup SKU, links to no product
WithoutUnresolvable ==
    [db EXCEPT
        !.products = [i \in 1..Len(db.products) |->
            IF ~Read(db.products[i]) THEN db.products[i]
            ELSE [db.products[i] EXCEPT
                    !.RelatedSetupSKUs = ResolvingRules(db.products[i].RelatedSetupSKUs)]],
        !.modules = [i \in 1..Len(db.modules) |->
            IF ~Read(db.modules[i]) THEN db.modules[i]
            ELSE [db.modules[i] EXCEPT
                    !.SaaSProductId =
                        IF db.modules[i].SaaSProductId \in ActiveProductIds
                        THEN db.modules[i].SaaSProductId ELSE Null,
                    !.SelectionRules =
                        Dict("setupSKUs" :>
                             ResolvingRules(db.modules[i].SelectionRules.m["setupSKUs"]))]]]

\* The code of the base product the request selects
BaseProductCode ==
    IF Lower(Get(call.parameters, "base_product", Str("standard")).s) = "basic"
    THEN "TELLER-BASIC" ELSE "TELLER-STANDARD"

BaseProductMissing == get_saas_product(db, call.pinned, BaseProductCode).v = Null

\* The catalog with the base product of the request added to the version
WithBaseProduct ==
    [db EXCEPT !.products =
        Append(db.products,
               [(IF BaseProductCode = "TELLER-BASIC" THEN TellerBasic ELSE TellerStandard)
                    EXCEPT !.Id = 90, !.PricingVersionId = VersionOfCall])]

AllButBase(result) ==
    [selected_products |->
        SelectSeq(result.selected_products, LAMBDA line : StepOf(line) # 1),
     setup_skus |-> SelectSeq(result.setup_skus, LAMBDA item : SetupStepOf(item) # 1)]

VersionResolves == get_pricing_version_id(db, call.pinned).ok

\* C21: a selection rule that names no setup SKU, a module linked to a
\* product that is gone and a missing base product do not make
\* configure_saas raise; the result is the one of the catalog without the
\* unresolvable rules and links, and without a base product the other lines
\* and setup items are those of the catalog that has it.
C21_UnresolvableSkipped ==
    (Returned /\ call.op = "configure_saas" /\ VersionResolves) =>
        /\ ret.ok
        /\ ret = configure_saas(WithoutUnresolvable, call.pinned, call.parameters)
        /\ BaseProductMissing =>
                AllButBase(ret.v) =
                    AllButBase(configure_saas(WithBaseProduct, call.pinned,
                                              call.parameters).v)

ModuleEnabled(code) ==
    Get(Get(Get(call.parameters, "modules", EmptyDict), code, EmptyDict),
        "enabled", Bool(FALSE)) = Bool(TRUE)

\* no base product, both modules enabled with their setup SKUs and a linked
\* product gone, and still lines and setup items of the rest
C21_Witness ==
    /\ ConfigurationReturned
    /\ BaseProductMissing
    /\ WithoutUnresolvable # db
    /\ ModuleEnabled("check_recognition") /\ ModuleEnabled("revenue_submission")
    /\ \E i \in 1..Len(db.modules) :
            /\ Read(db.modules[i])
            /\ db.modules[i].SaaSProductId # Null
            /\ db.modules[i].SaaSProductId \notin ActiveProductIds
            /\ db.modules[i].SelectionRules.m["setupSKUs"].items[1].m["skuCode"]
                    \notin ActiveSkuCodes
    /\ ret.v.selected_products # <<>>
    /\ ret.v.setup_skus # <<>>
    /\ ret.v.setup_skus #
            configure_saas(WithBaseProduct, call.pinned, call.parameters).v.setup_skus


(***************************************************************************)
(* Service instances that are called more than once.  An instance is a     *)
(* QuoteCalculationService with its ConfigurationService: the pinned       *)
(* version, the cached current version (_cache["pricing_version_id"]) and  *)
(* the _rules_cache.  A calculation is two reads of the store, the query   *)
(* for the current version and the query for the rule, and requests of     *)
(* administrators may be served between them.  The requests and their      *)
(* results are kept with the instances.                                    *)
(***************************************************************************)
\* Calls made in a behaviour, over all instances
MaxCalls == 2

NoRules == [code \in {} |-> Null]

\* The mark of a versions table that was not read
NoTable == <<>>

\* An __init__ whose caches are those of the first instance, as they are when
\* the dictionaries are attributes of the class
NewServiceShared(pinned) ==
    [_pricing_version_id |-> pinned,
     _cache |-> IF svc = <<>> THEN NoVersion ELSE svc[1]._cache,
     _rules_cache |-> IF svc = <<>> THEN NoRules ELSE svc[1]._rules_cache,
     pc |-> "idle", op |-> "none", parameters |-> Null, version |-> NoVersion,
     result |-> Pending, calls |-> 0, queries |-> 0, asked |-> 0, found |-> 0,
     known |-> {}, earlier |-> <<>>, entered |-> NoTable, seen |-> NoTable]

\* QuoteCalculationService.__init__ and ConfigurationService.__init__
NewService(pinned) ==
    [_pricing_version_id |-> pinned, _cache |-> NoVersion, _rules_cache |-> NoRules,
     pc |-> "idle", op |-> "none", parameters |-> Null, version |-> NoVersion,
     result |-> Pending, calls |-> 0,
     \* the queries for a rule: of this call, of the calls before it, and
     \* those of all calls that found a row
     queries |-> 0, asked |-> 0, found |-> 0,
     \* the rule codes the cache held when this call was entered
     known |-> {},
     \* history: what the calls returned, the versions table when this call
     \* was entered and the one its query for the current version read
     earlier |-> <<>>, entered |-> NoTable, seen |-> NoTable]

\* A method of the instance is entered
Called(instance, op, parameters, store) ==
    [instance EXCEPT !.pc = "called", !.op = op, !.parameters = parameters,
                     !.result = Pending, !.calls = @ + 1, !.version = NoVersion,
                     !.queries = 0, !.asked = @ + instance.queries,
                     !.known = DOMAIN instance._rules_cache,
                     !.entered = store.versions, !.seen = NoTable]

\* The versions table of a call during which it did not change, none for a
\* call that saw two
Throughout(instance, store) ==
    IF /\ instance.entered = store.versions
       /\ instance.seen = NoTable \/ instance.seen = store.versions
    THEN store.versions
    ELSE NoTable

\* The method returns or raises
Done(instance, result, store) ==
    [instance EXCEPT !.pc = "idle", !.result = result,
                     !.earlier = Append(@, [parameters |-> instance.parameters,
                                            result |-> result,
                                            configuration |-> Throughout(instance, store)])]

\* A resolution that answers with its failure again once it has failed
VersionIdRemembered(instance, store) ==
    IF instance.earlier # <<>> /\ ~instance.earlier[Len(instance.earlier)].result.ok
    THEN instance.earlier[Len(instance.earlier)].result
    ELSE IF instance._pricing_version_id = NoVersion /\ instance._cache # NoVersion
    THEN Ok(instance._cache)
    ELSE get_pricing_version_id(store, instance._pricing_version_id)

\* ConfigurationService.get_pricing_version_id on an instance: the pinned
\* version, else the cached one, else the query for the current version
VersionIdOn(instance, store) ==
    IF instance._pricing_version_id = NoVersion /\ instance._cache # NoVersion
    THEN Ok(instance._cache)
    ELSE get_pricing_version_id(store, instance._pricing_version_id)

\* self._cache["pricing_version_id"] = version_id, after a query that found one
VersionCached(instance, store) ==
    IF instance._pricing_version_id # NoVersion \/ instance._cache # NoVersion
    THEN instance
    ELSE IF VersionIdOn(instance, store).ok
    THEN [instance EXCEPT !._cache = VersionIdOn(instance, store).v,
                          !.seen = store.versions]
    ELSE [instance EXCEPT !.seen = store.versions]

\* A cache that answers with no rule
CacheMiss(instance, rule_code) == Ok(Null)

\* The cache answers a lookup with the configuration it holds for the code
CacheHit(instance, rule_code) == Ok(instance._rules_cache[rule_code])

\* _get_rule up to its query: the _rules_cache, then get_pricing_version_id
GetRuleStart(instance, store, rule_code) ==
    IF rule_code \in DOMAIN instance._rules_cache
    THEN Done(instance,
              ComplexityOfRule(CacheHit(instance, rule_code), instance.parameters),
              store)
    ELSE IF ~VersionIdOn(instance, store).ok
         THEN Done(VersionCached(instance, store), VersionIdOn(instance, store), store)
    ELSE [VersionCached(instance, store) EXCEPT
            !.pc = "query", !.version = VersionIdOn(instance, store).v]

\* A query whose rule is not kept
RuleQueriedUncached(instance, rows, rule_code) ==
    [instance EXCEPT !.queries = @ + 1, !.found = IF rows = {} THEN @ ELSE @ + 1]

\* _get_rule from its query on: a rule that is found is cached
RuleQueried(instance, rows, rule_code) ==
    IF rows = {} THEN [instance EXCEPT !.queries = @ + 1]
    ELSE [instance EXCEPT
            !.queries = @ + 1, !.found = @ + 1,
            !._rules_cache = (rule_code :> (CHOOSE r \in rows : TRUE).Configuration) @@ @]

GetRuleEnd(instance, store, rule_code) ==
    LET rows == RuleRows(store, instance.version, rule_code)
    IN  Done(RuleQueried(instance, rows, rule_code),
             ComplexityOfRule(IF rows = {} THEN Ok(Null)
                              ELSE Ok((CHOOSE r \in rows : TRUE).Configuration),
                              instance.parameters),
             store)

\* update_pricing_version with IsCurrent in its body: every current version
\* is unset first when the flag is set
CurrentSet(versions, version_id, is_current) ==
    [v \in DOMAIN versions |->
        [IsCurrent |-> IF v = version_id THEN is_current
                       ELSE IF is_current THEN FALSE ELSE versions[v].IsCurrent]]

\* No version is current until an administrator designates one, and only
\* the first version has the rule
ServiceDbs == {Store(NoCurrent, {Row(1, "COMPLEXITY_FACTOR", TRUE, SeedRule)})}

ServiceParameters == {Parameters(Int_(7), Int_(15), Int_(4)), Parameters(Int_(1), Int_(0), Int_(0))}

RECURSIVE CallsMade(_)
CallsMade(services) ==
    IF services = <<>> THEN 0 ELSE Head(services).calls + CallsMade(Tail(services))

InitService ==
    /\ db \in ServiceDbs
    /\ svc = NoServices
    /\ call = [op |-> "none"]
    /\ ret = Pending
    /\ evald = {}

\* An endpoint of api/quote_calculations.py: a new service for the request
Endpoint ==
    /\ CallsMade(svc) < MaxCalls
    /\ \E parameters \in ServiceParameters :
        svc' = Append(svc, Called(NewService(NoVersion),
                                  "calculate_complexity_factor", parameters, db))
    /\ UNCHANGED <<call, ret, evald, db>>

\* The same instance is called once more
CallAgain ==
    \E i \in 1..Len(svc), parameters \in ServiceParameters :
        /\ svc[i].pc = "idle"
        /\ CallsMade(svc) < MaxCalls
        /\ svc[i].op = "calculate_complexity_factor"
        /\ svc' = [svc EXCEPT ![i] = Called(@, "calculate_complexity_factor", parameters, db)]
        /\ UNCHANGED <<call, ret, evald, db>>

\* A ConfigurationService of its own, with or without a pinned version, asked
\* for the pricing version
GetPricingVersionId ==
    /\ CallsMade(svc) < MaxCalls
    /\ \E pinned \in {NoVersion, 2} :
        LET instance == Called(NewService(pinned), "get_pricing_version_id", Null, db)
        IN  svc' = Append(svc, Done(VersionCached(instance, db),
                                    VersionIdOn(instance, db), db))
    /\ UNCHANGED <<call, ret, evald, db>>

GetRule ==
    \E i \in 1..Len(svc) :
        /\ svc[i].pc = "called"
        /\ svc' = [svc EXCEPT ![i] = GetRuleStart(@, db, "COMPLEXITY_FACTOR")]
        /\ UNCHANGED <<call, ret, evald, db>>

QueryRule ==
    \E i \in 1..Len(svc) :
        /\ svc[i].pc = "query"
        /\ svc' = [svc EXCEPT ![i] = GetRuleEnd(@, db, "COMPLEXITY_FACTOR")]
        /\ UNCHANGED <<call, ret, evald, db>>

\* An administrator designates a version current, or takes the flag away
UpdatePricingVersion ==
    \E version_id \in DOMAIN db.versions, is_current \in BOOLEAN :
        /\ db' = [db EXCEPT !.versions = CurrentSet(@, version_id, is_current)]
        /\ db' # db
        /\ UNCHANGED <<call, ret, evald, svc>>

NextService ==
    Endpoint \/ CallAgain \/ GetPricingVersionId \/ GetRule \/ QueryRule
    \/ UpdatePricingVersion

SpecService == InitService /\ [][NextService]_vars

(***************************************************************************)
(* Administration of the catalog: the requests of api/pricing.py on        *)
(* pricing versions and of api/sku.py on the SKU definitions under them.   *)
(* A request is one transaction: it commits, or it leaves the tables as    *)
(* they were.                                                              *)
(***************************************************************************)
\* Pricing versions and SKU definitions created in a behaviour
MaxVersions == 2
MaxSkus == 1

NotFound == Raise("HTTPException 404")
BadRequest == Raise("HTTPException 400")

NoRows == [id \in {} |-> Null]
Unset == [field \in {} |-> FALSE]

Answer(store, response) == [store |-> store, response |-> response]

Without(rows, id) == [r \in DOMAIN rows \ {id} |-> rows[r]]

\* for field, value in update_data.items(): setattr(row, field, value)
SetAttrs(row, update_data) ==
    [field \in DOMAIN row |->
        IF field \in DOMAIN update_data THEN update_data[field] ELSE row[field]]

WithNumber(versions, version_number) ==
    {v \in DOMAIN versions : versions[v].VersionNumber = version_number}

\* A request that leaves the current version as it is
KeepCurrent(versions) == versions

\* db.query(PricingVersion).filter(PricingVersion.IsCurrent).update({"IsCurrent": False})
UnsetCurrent(versions) ==
    [v \in DOMAIN versions |->
        IF versions[v].IsCurrent THEN [versions[v] EXCEPT !.IsCurrent = FALSE]
        ELSE versions[v]]

\* POST /pricing-versions/
create_pricing_version(store, version_data) ==
    IF WithNumber(store.versions, version_data.VersionNumber) # {}
    THEN Answer(store, BadRequest)
    ELSE LET versions == IF version_data.IsCurrent THEN UnsetCurrent(store.versions)
                         ELSE store.versions
             id == store.versions_created + 1
         IN  Answer([store EXCEPT !.versions = versions @@ (id :> version_data),
                                  !.versions_created = id],
                    Ok(id))

\* An update that no lock refuses
UpdateAlways(version, version_data) == FALSE

\* if version.IsLocked and version_data.IsLocked is not False
UpdateRefused(version, version_data) ==
    /\ version.IsLocked
    /\ ~("IsLocked" \in DOMAIN version_data /\ version_data["IsLocked"] = FALSE)

\* PATCH /pricing-versions/{version_id}
update_pricing_version(store, version_id, version_data) ==
    IF version_id \notin DOMAIN store.versions THEN Answer(store, NotFound)
    ELSE IF UpdateRefused(store.versions[version_id], version_data)
    THEN Answer(store, BadRequest)
    ELSE LET versions == IF "IsCurrent" \in DOMAIN version_data /\ version_data["IsCurrent"]
                         THEN UnsetCurrent(store.versions)
                         ELSE store.versions
         IN  Answer([store EXCEPT !.versions =
                        [versions EXCEPT ![version_id] = SetAttrs(@, version_data)]],
                    Ok(version_id))

\* POST /pricing-versions/{version_id}/clone: the copy is flushed, not
\* committed, when the query on Referrer.PricingVersionId, a column that
\* models/referrer.py does not declare, raises
clone_pricing_version(store, version_id, new_version_number) ==
    IF version_id \notin DOMAIN store.versions THEN Answer(store, NotFound)
    ELSE IF WithNumber(store.versions, new_version_number) # {}
    THEN Answer(store, BadRequest)
    ELSE Answer(store, Raise("AttributeError"))

SkusUnder(store, version_id) ==
    {s \in DOMAIN store.skus : store.skus[s].PricingVersionId = version_id}

\* DELETE /pricing-versions/{version_id}: the foreign key of a SKU
\* definition restricts the delete
delete_pricing_version(store, version_id) ==
    IF version_id \notin DOMAIN store.versions THEN Answer(store, NotFound)
    ELSE IF store.versions[version_id].IsLocked THEN Answer(store, BadRequest)
    ELSE IF SkusUnder(store, version_id) # {} THEN Answer(store, BadRequest)
    ELSE Answer([store EXCEPT !.versions = Without(@, version_id)], Ok(Null))

\* pricing_version and pricing_version.IsLocked
LockedVersion(store, version_id) ==
    version_id \in DOMAIN store.versions /\ store.versions[version_id].IsLocked

\* POST /skus/
create_sku_definition(store, sku_data) ==
    IF sku_data.PricingVersionId \notin DOMAIN store.versions THEN Answer(store, NotFound)
    ELSE IF LockedVersion(store, sku_data.PricingVersionId) THEN Answer(store, BadRequest)
    ELSE IF \E s \in SkusUnder(store, sku_data.PricingVersionId) :
                store.skus[s].SKUCode = sku_data.SKUCode
    THEN Answer(store, BadRequest)
    ELSE LET id == store.skus_created + 1
         IN  Answer([store EXCEPT !.skus = @ @@ (id :> sku_data), !.skus_created = id],
                    Ok(id))

\* PATCH /skus/{sku_id}
update_sku_definition(store, sku_id, sku_data) ==
    IF sku_id \notin DOMAIN store.skus THEN Answer(store, NotFound)
    ELSE IF LockedVersion(store, store.skus[sku_id].PricingVersionId)
    THEN Answer(store, BadRequest)
    ELSE Answer([store EXCEPT !.skus[sku_id] = SetAttrs(@, sku_data)], Ok(sku_id))

\* DELETE /skus/{sku_id}
delete_sku_definition(store, sku_id) ==
    IF sku_id \notin DOMAIN store.skus THEN Answer(store, NotFound)
    ELSE IF LockedVersion(store, store.skus[sku_id].PricingVersionId)
    THEN Answer(store, BadRequest)
    ELSE Answer([store EXCEPT !.skus = Without(@, sku_id)], Ok(Null))

VersionNumbers == {"2025.1", "2025.2"}

\* PricingVersionCreate
VersionCreates ==
    {[VersionNumber |-> n, Description |-> "first", IsCurrent |-> c, IsLocked |-> l] :
        n \in VersionNumbers, c \in BOOLEAN, l \in BOOLEAN}

Given(field, values) == {Unset} \cup {field :> value : value \in values}

\* PricingVersionUpdate: the fields the body sets (exclude_unset), one field
\* or two
VersionUpdates ==
    Given("Description", {"second"}) \cup Given("IsCurrent", BOOLEAN)
    \cup Given("IsLocked", BOOLEAN)
    \cup {("IsLocked" :> FALSE) @@ ("Description" :> "second"),
          ("IsCurrent" :> TRUE) @@ ("IsLocked" :> TRUE),
          ("IsCurrent" :> TRUE) @@ ("Description" :> "second")}

\* SKUDefinitionCreate and SKUDefinitionUpdate
SkuCreates ==
    {[PricingVersionId |-> v, SKUCode |-> "ORG-SETUP", Name |-> "first"] :
        v \in 1..MaxVersions}

SkuUpdates == Given("Name", {"second"})

EmptyTables == [versions |-> NoRows, versions_created |-> 0, skus |-> NoRows, skus_created |-> 0]

InitAdmin ==
    /\ db = EmptyTables
    /\ call = [op |-> "none"]
    /\ ret = Pending
    /\ evald = {}
    /\ svc = NoServices

\* The request is answered and its transaction is over
Answered_(request, answer) ==
    /\ call' = request
    /\ ret' = answer.response
    /\ db' = answer.store
    /\ UNCHANGED <<evald, svc>>

CreatePricingVersion ==
    \E version_data \in VersionCreates :
        /\ create_pricing_version(db, version_data).response.ok =>
                db.versions_created < MaxVersions
        /\ Answered_([op |-> "create_pricing_version", version_data |-> version_data],
                     create_pricing_version(db, version_data))

UpdatePricingVersionRequest ==
    \E version_id \in 1..MaxVersions, version_data \in VersionUpdates :
        Answered_([op |-> "update_pricing_version", version_id |-> version_id,
                   version_data |-> version_data],
                  update_pricing_version(db, version_id, version_data))

ClonePricingVersion ==
    \E version_id \in 1..MaxVersions, new_version_number \in VersionNumbers :
        Answered_([op |-> "clone_pricing_version", version_id |-> version_id,
                   new_version_number |-> new_version_number],
                  clone_pricing_version(db, version_id, new_version_number))

DeletePricingVersion ==
    \E version_id \in 1..MaxVersions :
        Answered_([op |-> "delete_pricing_version", version_id |-> version_id],
                  delete_pricing_version(db, version_id))

CreateSkuDefinition ==
    \E sku_data \in SkuCreates :
        /\ create_sku_definition(db, sku_data).response.ok => db.skus_created < MaxSkus
        /\ Answered_([op |-> "create_sku_definition", sku_data |-> sku_data],
                     create_sku_definition(db, sku_data))

UpdateSkuDefinition ==
    \E sku_id \in 1..MaxSkus, sku_data \in SkuUpdates :
        Answered_([op |-> "update_sku_definition", sku_id |-> sku_id, sku_data |-> sku_data],
                  update_sku_definition(db, sku_id, sku_data))

DeleteSkuDefinition ==
    \E sku_id \in 1..MaxSkus :
        Answered_([op |-> "delete_sku_definition", sku_id |-> sku_id],
                  delete_sku_definition(db, sku_id))

NextAdmin ==
    \/ CreatePricingVersion
    \/ UpdatePricingVersionRequest
    \/ ClonePricingVersion
    \/ DeletePricingVersion
    \/ CreateSkuDefinition
    \/ UpdateSkuDefinition
    \/ DeleteSkuDefinition

SpecAdmin == InitAdmin /\ [][NextAdmin]_vars

(***************************************************************************)
(* Properties of the service instances.                                    *)
(***************************************************************************)
Instances == {svc[i] : i \in 1..Len(svc)}

Answered(instance, op) == instance.pc = "idle" /\ instance.op = op

CurrentIn(versions) == {v \in DOMAIN versions : versions[v].IsCurrent}

NoCurrentVersion == Raise("ValueError")

\* C22: get_pricing_version_id returns the pinned version when one was
\* given, else the version that is current, and raises the 'no current
\* pricing version' error when there is none; a calculation that has to
\* resolve the version raises that error too, and after the error the same
\* instance resolves the version again once one is current.
C22_VersionResolution ==
    \A instance \in Instances :
        /\ Answered(instance, "get_pricing_version_id") =>
                IF instance._pricing_version_id # NoVersion
                THEN instance.result = Ok(instance._pricing_version_id)
                ELSE IF CurrentIn(instance.seen) = {}
                THEN instance.result = NoCurrentVersion
                ELSE /\ instance.result.ok
                     /\ instance.result.v \in CurrentIn(instance.seen)
        /\ (Answered(instance, "calculate_complexity_factor") /\ instance.seen # NoTable) =>
                /\ CurrentIn(instance.seen) = {} <=> instance.result = NoCurrentVersion
                /\ CurrentIn(instance.seen) # {} => instance._cache \in CurrentIn(instance.seen)

\* an instance whose first calculation raised the error and whose second one,
\* after a version became current, returned a result
C22_Witness ==
    \E instance \in Instances :
        /\ Answered(instance, "calculate_complexity_factor")
        /\ Len(instance.earlier) = 2
        /\ instance.earlier[1].result = NoCurrentVersion
        /\ instance.earlier[2].result.ok
        /\ instance.seen # NoTable

\* C23: the request of an endpoint is answered by an instance of its own:
\* its result is the one the stored configuration gives, read as the request
\* read it, whatever the instances of other requests hold in their caches.
C23_OwnConfiguration ==
    \A instance \in Instances :
        (Answered(instance, "calculate_complexity_factor") /\ instance.calls = 1) =>
            instance.result = calculate_complexity_factor(Store(instance.seen, db.rules),
                                                          instance.parameters)

\* two requests answered while different versions were current, each with
\* the result of the version it read
C23_Witness ==
    \E a, b \in Instances :
        /\ Answered(a, "calculate_complexity_factor") /\ a.calls = 1
        /\ Answered(b, "calculate_complexity_factor") /\ b.calls = 1
        /\ a.parameters = b.parameters
        /\ a.result.ok /\ b.result.ok /\ a.result # b.result
        /\ a._rules_cache # NoRules /\ b._rules_cache = NoRules

Unchanged(first, second) ==
    /\ first.configuration # NoTable
    /\ first.configuration = second.configuration
    /\ first.parameters = second.parameters

ZonesRead ==
    {db.zones[i] : i \in {j \in 1..Len(db.zones) : Str(db.zones[j].Id) = call.travel_zone_id}}

ZonePriced == ret.ok /\ ret.v.zone_name # Null

\* C25: the travel zone a calculation prices belongs to the pricing version
\* that get_pricing_version_id returns and is active; a zone of another
\* version, or an inactive one, is treated as not found and contributes no
\* price.
C25_ZoneOfVersionAndActive ==
    (call.op = "calculate_travel_cost" /\ ZonePriced) =>
        \E zone \in ZonesRead :
            /\ get_pricing_version_id(db, NoVersion) = Ok(zone.PricingVersionId)
            /\ zone.IsActive

(***************************************************************************)
(* Properties of the administration of pricing versions.                   *)
(***************************************************************************)
LockedIn(store) == {v \in DOMAIN store.versions : store.versions[v].IsLocked}

Unlocks(version_data) ==
    "IsLocked" \in DOMAIN version_data /\ version_data["IsLocked"] = FALSE

SkuRowsUnder(store, version_id) ==
    [s \in SkusUnder(store, version_id) |-> store.skus[s]]

\* What a request does to a version that is locked: it stays, a request to
\* update it that does not unlock it is rejected and changes nothing, and
\* the SKU definitions under it stay as they are
LockRespected(v) ==
    /\ v \in DOMAIN db'.versions
    /\ (/\ call'.op = "update_pricing_version"
        /\ call'.version_id = v
        /\ ~Unlocks(call'.version_data)) => (~ret'.ok /\ db' = db)
    /\ (call'.op = "delete_pricing_version" /\ call'.version_id = v) =>
            (~ret'.ok /\ db' = db)
    /\ SkuRowsUnder(db', v) = SkuRowsUnder(db, v)

StillLocked(v) == v \in DOMAIN db'.versions /\ db'.versions[v].IsLocked

OtherMadeCurrent(v) ==
    /\ call'.op \in {"create_pricing_version", "update_pricing_version"}
    /\ ret'.ok
    /\ ret'.v # v
    /\ db'.versions[ret'.v].IsCurrent

MadeCurrent ==
    /\ call.op \in {"create_pricing_version", "update_pricing_version"}
    /\ ret.ok
    /\ "IsCurrent" \in DOMAIN call.version_data
    /\ call.version_data["IsCurrent"]

CurrentFlags(store) == [v \in DOMAIN store.versions |-> store.versions[v].IsCurrent]

\* C27: at most one pricing version is current; a create or update with
\* IsCurrent = true that succeeds leaves exactly its version current; a
\* request that is rejected changes no IsCurrent flag.
C27_SingleCurrent ==
    /\ [](/\ Cardinality(CurrentIn(db.versions)) <= 1
          /\ MadeCurrent => CurrentIn(db.versions) = {ret.v})
    /\ [][~ret'.ok => CurrentFlags(db') = CurrentFlags(db)]_vars

\* a second version was made current by an update
C27_Witness ==
    /\ MadeCurrent
    /\ call.op = "update_pricing_version"
    /\ Cardinality(DOMAIN db.versions) = 2
    /\ CurrentIn(db.versions) = {call.version_id}

(***************************************************************************)
(* The year-1 discount in the projection, and the bounds of the setup      *)
(* discount.                                                               *)
(***************************************************************************)
Year1Pct == DiscountOf("saas_year1_pct").v

DiscountsOfCall ==
    apply_discounts(call.saas_monthly, call.setup_total, call.discount_config).v

\* C29: the year-1 discount reduces year 1 only: saas_annual of year 1 is
\* 12 * base_monthly * (1 - saas_year1_pct / 100) and saas_monthly of year 1
\* is a twelfth of it, every later year has 12 times its escalated monthly
\* rate, and without the Teller Payments discount saas_annual of year 1 is
\* saas_monthly * 12 less the saas_year1_discount_amount of apply_discounts.
C29_YearOneDiscount ==
    (ProjectionReturned /\ Len(ret.v.years) >= 1) =>
        /\ ret.v.years[1].saas_annual =
                RMul(RMul(RInt(12), BaseMonthly), OneMinus(Year1Pct))
        /\ ret.v.years[1].saas_monthly = RDiv(ret.v.years[1].saas_annual, RInt(12))
        /\ \A n \in 2..Len(ret.v.years) :
                ret.v.years[n].saas_annual =
                    RMul(RInt(12), RMul(BaseMonthly, Compounded(NamedRate, n)))
        /\ ~call.teller_payments_enabled =>
                ret.v.years[1].saas_annual =
                    RSub(RMul(call.saas_monthly, RInt(12)),
                         DiscountsOfCall.saas_year1_discount_amount)

\* both SaaS discounts at work over three years, without Teller Payments
C29_Witness ==
    /\ ProjectionReturned
    /\ ~call.teller_payments_enabled
    /\ Len(ret.v.years) = 3
    /\ RLt(RZero, Year1Pct)
    /\ RLt(RZero, DiscountOf("saas_all_years_pct").v)
    /\ RLt(RZero, ret.v.years[1].saas_annual)
    /\ RLt(ret.v.years[1].saas_annual, ret.v.years[2].saas_annual)
    /\ RLt(RZero, DiscountsOfCall.saas_year1_discount_amount)

SetupDiscountsInRange ==
    /\ NumericDiscounts
    /\ RLe(RZero, call.setup_total)
    /\ RLe(RZero, DiscountOf("setup_fixed").v)
    /\ RLe(RZero, DiscountOf("setup_pct").v)
    /\ RLe(DiscountOf("setup_pct").v, RInt(100))

\* C30: for a setup total and a fixed discount that are not negative and a
\* percentage between 0 and 100, setup_after and setup_discount_amount lie
\* between 0 and the setup total and add up to it, and setup_before is the
\* setup total, also when the fixed discount exceeds the total.
C30_SetupDiscountBounded ==
    (Returned /\ SetupDiscountsInRange) =>
        /\ ret.ok
        /\ RLe(RZero, ret.v.setup_after)
        /\ RLe(ret.v.setup_after, call.setup_total)
        /\ RLe(RZero, ret.v.setup_discount_amount)
        /\ RLe(ret.v.setup_discount_amount, call.setup_total)
        /\ RAdd(ret.v.setup_after, ret.v.setup_discount_amount) = ret.v.setup_before
        /\ ret.v.setup_before = call.setup_total

\* a fixed discount larger than the setup total it is taken from
C30_Witness ==
    /\ Returned /\ SetupDiscountsInRange
    /\ RLt(RZero, call.setup_total)
    /\ RLt(call.setup_total, DiscountOf("setup_fixed").v)
    /\ ret.v.setup_after = RZero
    /\ ret.v.setup_discount_amount = call.setup_total

====
